---- MODULE Spec2Model ----
(***************************************************************************)
(* Model of the PIX health monitor: the error-state / cooldown tracker     *)
(* (src/src/utils/errorHandler.js), the probe client                       *)
(* (src/src/services/for4Service.js) and the check orchestrator            *)
(* (src/unnamed/part_001, the PixMonitor class).                           *)
(*                                                                         *)
(* Time is the value of Date.now() in abstract ticks.  One synchronous run *)
(* of JavaScript reads one clock value.                                    *)
(***************************************************************************)
EXTENDS Integers, Sequences, FiniteSets, TLC

\* ------------------------------------------------------------------ bounds
MaxClock == 3
MaxCycles == 3
MaxCooldown == 2
\* the first MaxFree samples of a stream of samples are free, the stream
\* then repeats them
MaxFree == 5
\* the capacity of the tracker's sample buffer, this.maxSamples: 1000 in
\* logger.js:222, scaled down to a capacity the sample streams overflow
maxSamples == 20
\* recordResponseTime calls made beyond the capacity of the sample buffer
MaxExtra == 2
\* recordResponseTime calls made while the hours pass
MaxHourlyCalls == 6
\* the largest number of hours asked of getHourlyStats
MaxHoursAsked == 24
\* recordResponseTime calls made on the disk whose writes can fail
MaxFaultCalls == 2
\* firings of the status-summary timer in one behaviour
MaxFirings == 2
\* fast samples recorded at hour 0 before the critical hours are studied
EarlierCalls == 3
\* recordResponseTime calls made after them while the hours pass
MaxCriticalCalls == 4
\* recordResponseTime calls made while the days of the retention pass
MaxRetentionCalls == 3
\* ticks of the clock in one behaviour of the overlapping cycles
MaxTicks == 4
\* the interval between two firings of the check timer, in ticks
MaxInterval == 2

\* ------------------------------------------------------- program constants
\* stats.errors keeps the last 100 summaries (part_001:185)
MaxErrors == 100
\* JavaScript null in a timestamp field (errorHandler.js:191)
Null == -1

\* ErrorTypes, errorHandler.js:7-15
ErrorTypes ==
  {"NETWORK_ERROR", "TIMEOUT_ERROR", "AUTH_ERROR", "API_ERROR",
   "INVALID_RESPONSE", "NO_PIX_CODE", "UNKNOWN_ERROR"}

\* the outcome of a call that raises a TypeError instead of returning
TypeErrorRaised == "TypeError"

\* ------------------------------------------------- failure values (inputs)
\* A failure object as runHealthCheck's catch receives it.  message is
\* "absent" when the object has no message property, "timeout" when the text
\* contains 'timeout', "other" for any other text.  hasResponse/status model
\* error.response and error.response.status, type models error.type.
Codes == {"none", "ECONNABORTED", "ENOTFOUND", "ECONNREFUSED", "ECONNRESET"}
Messages == {"absent", "timeout", "other"}
Statuses == {200, 304, 400, 401, 403, 404, 500, 503}
Types == {"none", "INVALID_RESPONSE", "NO_PIX_CODE"}

ErrorValues ==
  [code : Codes, message : Messages, hasResponse : BOOLEAN,
   status : Statuses, type : Types]

NoError ==
  [code |-> "none", message |-> "absent", hasResponse |-> FALSE,
   status |-> 200, type |-> "none"]

\* ---------------------------------------------------------- classifyError
\* errorHandler.js:57-83.  Line 58 evaluates error.message.includes(...)
\* whenever error.code is not 'ECONNABORTED'; on an object without a message
\* property that read raises a TypeError.
ClassifyError(error) ==
  IF error.code = "ECONNABORTED"
  THEN "TIMEOUT_ERROR"
  ELSE IF error.message = "absent"
  THEN TypeErrorRaised
  ELSE IF error.message = "timeout"
  THEN "TIMEOUT_ERROR"
  ELSE IF error.code = "ENOTFOUND" \/ error.code = "ECONNREFUSED"
  THEN "NETWORK_ERROR"
  ELSE IF error.hasResponse
  THEN IF error.status = 401 \/ error.status = 403
       THEN "AUTH_ERROR"
       ELSE IF error.status >= 400 /\ error.status < 500
       THEN "API_ERROR"
       ELSE IF error.status >= 500
       THEN "API_ERROR"
       ELSE "UNKNOWN_ERROR"
  ELSE "UNKNOWN_ERROR"

\* ----------------------------------------------------- validatePixResponse
RequiredFields == {"id", "status", "pixCode", "pixQrCode"}

\* for4Service.js:120-142.  data is the set of required fields the response
\* body carries with a truthy value.  The result is "ok" or the Error raised:
\* its type and missingFields are assigned (enumerable) properties, its
\* message is the Error constructor's own, non-enumerable property.
ValidatePixResponse(data) ==
  LET missingFields == RequiredFields \ data IN
  IF missingFields # {}
  THEN [ok |-> FALSE,
        type |-> IF "pixCode" \notin data \/ "pixQrCode" \notin data
                 THEN "NO_PIX_CODE" ELSE "INVALID_RESPONSE",
        missingFields |-> missingFields]
  ELSE [ok |-> TRUE, type |-> "none", missingFields |-> {}]

\* --------------------------------------------------- createPixTransaction
\* What the HTTP call of for4Service.js:90 ends with.
\*   "response": a 2xx response whose body carries the fields `data`;
\*   "axios":    a rejection by axios with the given code, message text and
\*               response status (hasResponse = FALSE: no response at all).
\* enumerableMessage says whether the axios error's message is an own
\* enumerable property (it is in axios 1.x, it is not in axios 0.x): the
\* object spread of line 109-113 copies own enumerable properties only.
RawResponses == [tag : {"response"}, data : SUBSET RequiredFields]

RawAxios ==
    \* timeout of the request (config.monitor.requestTimeout)
    {[tag |-> "axios", code |-> "ECONNABORTED", message |-> "timeout",
      hasResponse |-> FALSE, status |-> 200]}
  \cup
    \* DNS failure, connection refused, connection reset
    [tag : {"axios"}, code : {"ENOTFOUND", "ECONNREFUSED", "ECONNRESET"},
     message : {"other"}, hasResponse : {FALSE}, status : {200}]
  \cup
    \* a response outside validateStatus (2xx)
    [tag : {"axios"}, code : {"none"}, message : {"other"},
     hasResponse : {TRUE}, status : Statuses \ {200}]

RawOutcomes == RawResponses \cup RawAxios

\* the probe outcomes the monitor is run against: a valid response, a
\* response without pixCode, a response without id, a timeout and HTTP 500
\* (classifyError is run on every failure value in SpecClassify)
ProbeOutcomes ==
  {raw \in RawOutcomes :
     \/ raw.tag = "response"
          /\ raw.data \in {RequiredFields, RequiredFields \ {"pixCode"},
                           RequiredFields \ {"id"}}
     \/ raw.tag = "axios" /\ raw.code \in {"ECONNABORTED"}
     \/ raw.tag = "axios" /\ raw.hasResponse /\ raw.status \in {500}}

\* for4Service.js:67-115: the result returned, or the object thrown at
\* line 109 ({...error, trackingId, isFor4Error}).
CreatePixTransaction(raw, enumerableMessage) ==
  IF raw.tag = "response"
  THEN LET v == ValidatePixResponse(raw.data) IN
       IF v.ok
       THEN [ok |-> TRUE, error |-> NoError]
       ELSE [ok |-> FALSE,
             error |-> [code |-> "none", message |-> "absent",
                        hasResponse |-> FALSE, status |-> 200,
                        type |-> v.type]]
  ELSE [ok |-> FALSE,
        error |-> [code |-> raw.code,
                   message |-> IF enumerableMessage THEN raw.message
                               ELSE "absent",
                   hasResponse |-> raw.hasResponse, status |-> raw.status,
                   type |-> "none"]]

\* ------------------------------------------------------------------ state
VARIABLES
  clock,             \* Date.now()
  phase,             \* "first": before/in main()'s immediate check,
                     \* "cron": recurring checks scheduled, "down": no process
  cooldown,          \* config.monitor.notificationCooldownMinutes, in ticks
  startHour,         \* config.monitor.startHour (Null when unset)
  endHour,           \* config.monitor.endHour (Null when unset)
  enumerableMessage, \* whether the installed axios makes message enumerable
  isPaused,          \* PixMonitor.isPaused
  errorState,        \* ErrorHandler.errorState: kind -> entry
  errorFile,         \* data/error-state.json
  stats,             \* PixMonitor.stats
  statsFile,         \* data/monitor-stats.json
  diskOk,            \* whether fs.writeFile succeeds
  cycles,            \* runHealthCheck invocations so far (bounds the model)
  last,              \* what the latest runHealthCheck invocation did
  lastOutcome,       \* outcome of the latest non-skipped check of this run
  lastAlertAt,       \* kind -> time of the latest sendErrorAlert for it
  failsSinceClear,   \* kind -> failures handled since the last clear
  failure,           \* the value handed to classifyError
  kind,              \* what classifyError returned for it
  askedHour,         \* moment().hour() as isWithinMonitoringHours read it
  within,            \* what isWithinMonitoringHours returned for it
  metrics,           \* PerformanceTracker.metrics
  metricsFile,       \* data/performance-metrics.json
  recorded,          \* the samples handed to recordResponseTime since the
                     \* tracker was built, in order
  trackerNow,        \* moment() as the tracker reads it, in whole hours
  notificationsEnabled, \* config.telegram.enabled
  telegramOk,        \* whether a request to the Telegram API succeeds
  exitCode,          \* the code the process exited with (Null while it runs)
  exitBy,            \* what ended the process: "signal", "uncaught", "fatal"
                     \* (main's catch), "test" (--test done); "none" while it
                     \* runs
  stopNotice,        \* what stop()'s sendMessage resolved to ("none" before)
  testMode,          \* process.argv includes '--test'
  firings,           \* firings of the status-summary timer so far
  statusSent,        \* status summaries handed to sendStatusSummary so far
  statusRejected,    \* status-summary callbacks that ended in a rejection
  running,           \* the check cycles in flight, each suspended at an await
  sinceFire,         \* ticks since the check timer was last due
  interval,          \* ticks between two firings of the check timer
  cycleLimit,        \* the most ticks a check cycle takes in this setting
  recoveryNotices    \* failedChecks at each recovery notice of those cycles

vars ==
  <<clock, phase, cooldown, startHour, endHour, enumerableMessage, isPaused,
    errorState, errorFile, stats, statsFile, diskOk, cycles, last,
    lastOutcome, lastAlertAt, failsSinceClear, failure, kind, askedHour,
    within, metrics, metricsFile, recorded, trackerNow,
    notificationsEnabled, telegramOk, exitCode, exitBy, stopNotice, testMode,
    firings, statusSent, statusRejected,
    running, sinceFire, interval, cycleLimit, recoveryNotices>>

configVars == <<cooldown, startHour, endHour, enumerableMessage>>
classifyVars == <<failure, kind>>
hoursVars == <<askedHour, within>>
trackerVars == <<metrics, metricsFile, recorded, trackerNow>>
channelVars == <<notificationsEnabled, telegramOk>>
processVars == <<exitCode, exitBy, stopNotice, testMode>>
timerVars == <<firings, statusSent, statusRejected>>
overlapVars ==
  <<running, sinceFire, interval, cycleLimit, recoveryNotices>>
monitorVars ==
  <<clock, phase, isPaused, errorState, errorFile, stats, statsFile, cycles,
    last, lastOutcome, lastAlertAt, failsSinceClear>>

\* every check cycle is over long before the timer is due again: no cycle
\* is ever in flight between two steps
RunToCompletion ==
  /\ running = <<>>
  /\ sinceFire = 0
  /\ interval = 1
  /\ cycleLimit = 0
  /\ recoveryNotices = <<>>

\* ------------------------------------------------------------ configuration
\* config.js:27-28: unset, or an hour parsed from the environment
Windows ==
  {<<Null, Null>>, <<22, 6>>, <<0, 6>>, <<8, 18>>}
\* the hours of day at which the modelled checks run
HourSamples == {2, 10}
Cooldowns == 1..MaxCooldown

\* logger.js:166-178 (dataGenerator.isWithinMonitoringHours); currentHour is
\* moment().hour().  !startHour is true for null and for 0.
IsWithinMonitoringHours(start, end, currentHour) ==
  IF (start = Null \/ start = 0) \/ (end = Null \/ end = 0)
  THEN TRUE
  ELSE IF end < start
  THEN currentHour >= start \/ currentHour < end
  ELSE currentHour >= start /\ currentHour < end

\* the hour of day noted for a cycle: only a configured window makes the
\* hour matter
HourNoted(start, end, currentHour) ==
  IF start = Null /\ end = Null THEN Null ELSE currentHour

\* --------------------------------------------------------------- the stores
\* errorHandler.js:22 / :35 / :240
EmptyErrorState == [k \in {} |-> 0]

\* a JSON file: absent, or holding a document; corrupt when its text no
\* longer parses as JSON (content is then the document it was written from)
AbsentFile == [exists |-> FALSE, corrupt |-> FALSE, content |-> 0]
FileWith(doc) == [exists |-> TRUE, corrupt |-> FALSE, content |-> doc]

\* mutant: the text of the file is taken over without parsing it
ReadableIfExists(file) == file.exists

\* fs.readFile followed by JSON.parse inside try (errorHandler.js:30-32,
\* part_001:87-88, logger.js:231-232): both succeed
Readable(file) == file.exists /\ ~file.corrupt

\* fs.writeFile inside try/catch (errorHandler.js:42-52, part_001:107-113):
\* the document replaces the file, or the write fails and the error is
\* logged and swallowed.
WriteFile(file, doc, ok) == IF ok THEN FileWith(doc) ELSE file

\* errorHandler.js:29-37
LoadErrorState(file) ==
  IF Readable(file) THEN file.content ELSE EmptyErrorState

\* part_001:16-26
DefaultStats ==
  [totalChecks |-> 0, successfulChecks |-> 0, failedChecks |-> 0,
   totalResponseTime |-> 0, errors |-> <<>>, lastCheck |-> Null,
   lastError |-> "none", isHealthy |-> TRUE]

\* mutant: the saved health flag is not taken over
LoadStatsKeepHealthy(file) ==
  IF Readable(file) THEN [file.content EXCEPT !.isHealthy = TRUE]
  ELSE DefaultStats

\* part_001:85-102: Object.assign(this.stats, savedStats); a missing or
\* unreadable file leaves the defaults.
LoadStats(file) == IF Readable(file) THEN file.content ELSE DefaultStats

\* ---------------------------------------------------------- error tracker
\* mutant: the cooldown comparison is strict
ShouldSendNotificationStrict(state, errorType, now, cooldownMs) ==
  IF errorType \notin DOMAIN state
       \/ state[errorType].lastNotification = Null
       \/ state[errorType].lastNotification = 0
  THEN TRUE
  ELSE now - state[errorType].lastNotification > cooldownMs

\* errorHandler.js:221-231
ShouldSendNotification(state, errorType, now, cooldownMs) ==
  IF errorType \notin DOMAIN state
       \/ state[errorType].lastNotification = Null
       \/ state[errorType].lastNotification = 0
  THEN TRUE
  ELSE now - state[errorType].lastNotification >= cooldownMs

\* mutant: every occurrence restarts the entry's firstOccurrence
CountOccurrenceFromNow(state, errorType, now) ==
  LET entry == IF errorType \in DOMAIN state
               THEN state[errorType]
               ELSE [count |-> 0, firstOccurrence |-> now,
                     lastOccurrence |-> now, lastNotification |-> Null]
  IN [k \in DOMAIN state \cup {errorType} |->
        IF k = errorType
        THEN [entry EXCEPT !.count = entry.count + 1,
                           !.firstOccurrence = now, !.lastOccurrence = now]
        ELSE state[k]]

\* errorHandler.js:186-197: create the entry if missing, count, stamp
CountOccurrence(state, errorType, now) ==
  LET entry == IF errorType \in DOMAIN state
               THEN state[errorType]
               ELSE [count |-> 0, firstOccurrence |-> now,
                     lastOccurrence |-> now, lastNotification |-> Null]
  IN [k \in DOMAIN state \cup {errorType} |->
        IF k = errorType
        THEN [entry EXCEPT !.count = entry.count + 1, !.lastOccurrence = now]
        ELSE state[k]]

\* mutant: the notification is never stamped
StampNotificationNever(state, errorType, now, shouldNotify) == state

\* errorHandler.js:202-204
StampNotification(state, errorType, now, shouldNotify) ==
  IF shouldNotify
  THEN [state EXCEPT ![errorType].lastNotification = now]
  ELSE state

\* errorHandler.js:181-216 up to the save: the new state and the result.
\* A TypeError raised by classifyError leaves the state untouched.
HandleError(state, error, now, cooldownMs) ==
  LET errorType == ClassifyError(error) IN
  IF errorType = TypeErrorRaised
  THEN [thrown |-> TRUE, state |-> state, type |-> TypeErrorRaised,
        shouldNotify |-> FALSE, errorCount |-> 0]
  ELSE LET counted == CountOccurrence(state, errorType, now)
           shouldNotify ==
             ShouldSendNotification(counted, errorType, now, cooldownMs)
           stamped == StampNotification(counted, errorType, now, shouldNotify)
       IN [thrown |-> FALSE, state |-> stamped, type |-> errorType,
           shouldNotify |-> shouldNotify,
           errorCount |-> stamped[errorType].count]

\* mutant: a clear without a kind resets nothing
ClearErrorStateNoReset(state, errorType) ==
  IF errorType # "null"
  THEN [k \in DOMAIN state \ {errorType} |-> state[k]]
  ELSE state

\* errorHandler.js:236-241 (the save of line 243 is in the caller's action)
ClearErrorState(state, errorType) ==
  IF errorType # "null"
  THEN [k \in DOMAIN state \ {errorType} |-> state[k]]
  ELSE EmptyErrorState

\* mutant: the state is saved only when a notification is due
SaveErrorStateWhenNotifying(file, state, shouldNotify, ok) ==
  IF shouldNotify THEN WriteFile(file, state, ok) ELSE file

\* errorHandler.js:207: handleError saves unconditionally
SaveErrorStateAfterHandle(file, state, shouldNotify, ok) ==
  WriteFile(file, state, ok)


\* mutant: saveErrorState lets a failed write escape
SaveErrorStateRaisesOnFailure(ok) == ~ok

\* errorHandler.js:42-52: the catch around fs.writeFile logs the error and
\* does not rethrow, so saveErrorState never raises into handleError
SaveErrorStateRaises(ok) == FALSE

\* ----------------------------------------------------- notification channel
\* mutant: a failed Telegram request is rethrown to the caller
SendMessageRaisesOnFailure(enabled, ok) == enabled /\ ~ok

\* part_000:28-66, 181-212: the request and the reading of its response are
\* inside try, the catch logs and returns, so neither sendMessage nor
\* sendMessageWithButtons rejects
SendMessageRaises(enabled, ok) == FALSE

\* part_000:28-66: what sendMessage resolves to.  "skipped" is
\* {success: true, skipped: true}, "sent" is {success: true, messageId},
\* "failed" is {success: false, error}.
SendMessage(enabled, ok) ==
  IF ~enabled THEN "skipped" ELSE IF ok THEN "sent" ELSE "failed"

\* the error a rejected Telegram request carries: an axios error with its
\* message, not passed through an object spread
TelegramError ==
  [code |-> "ECONNRESET", message |-> "other", hasResponse |-> FALSE,
   status |-> 200, type |-> "none"]

\* ------------------------------------------------------- check orchestrator
ResponseTimes == {3}

\* mutant: the successful check is not added to the total
CountSuccessNotInTotal(st, responseTime, now) ==
  [st EXCEPT !.successfulChecks = @ + 1,
             !.totalResponseTime = @ + responseTime, !.lastCheck = now]

\* part_001:141-144
CountSuccess(st, responseTime, now) ==
  [st EXCEPT !.totalChecks = @ + 1, !.successfulChecks = @ + 1,
             !.totalResponseTime = @ + responseTime, !.lastCheck = now]

\* part_001:147: was the monitor unhealthy when this check succeeded
NeedsRecovery(st) == ~st.isHealthy

\* mutant: the flag is not reset before the notice is sent
MarkHealthyLater(st) == st

\* part_001:148
MarkHealthy(st) == [st EXCEPT !.isHealthy = TRUE]

\* mutant: the failure path leaves the health flag alone
CountFailureKeepHealth(st, now) ==
  [st EXCEPT !.totalChecks = @ + 1, !.failedChecks = @ + 1,
             !.lastCheck = now]

\* part_001:168-171
CountFailure(st, now) ==
  [st EXCEPT !.totalChecks = @ + 1, !.failedChecks = @ + 1,
             !.lastCheck = now, !.isHealthy = FALSE]

\* Array.prototype.slice(-n)
SliceLast(seq, n) ==
  IF Len(seq) > n THEN SubSeq(seq, Len(seq) - n + 1, Len(seq)) ELSE seq

\* part_001:177-193: the error summary appended (capped), lastError set
RecordError(st, errorType) ==
  LET pushed == Append(st.errors, errorType) IN
  [st EXCEPT !.errors = IF Len(pushed) > MaxErrors
                        THEN SliceLast(pushed, MaxErrors) ELSE pushed,
             !.lastError = errorType]

\* mutant: the successful check leaves the error state alone
ErrorStateKeptAfterSuccess(state) == state

\* part_001:153: every successful check clears the whole error state
ErrorStateAfterSuccess(state) == ClearErrorState(state, "null")

NoCycle ==
  [seq |-> 0, outcome |-> "none", hour |-> Null, probed |-> FALSE,
   type |-> "none", shouldNotify |-> FALSE, errorCount |-> 0,
   alerts |-> 0, recoveries |-> 0, error |-> NoError, first |-> FALSE,
   alertResult |-> "none", recoveryResult |-> "none"]

ZeroPerKind == [k \in ErrorTypes |-> 0]
NeverPerKind == [k \in ErrorTypes |-> Null]

\* part_002:48-64: after the check main() awaits, --test exits the process
\* and the continuous mode schedules the recurring checks
AfterCheck(test) == IF test THEN "down" ELSE "cron"

\* part_001:118-129: the cycle returns before doing anything
Skipped(now, hour) ==
  /\ last' = [NoCycle EXCEPT !.seq = cycles + 1, !.outcome = "skipped",
                             !.hour = hour, !.first = (phase = "first")]
  /\ phase' = AfterCheck(testMode)
  /\ UNCHANGED <<errorState, errorFile, stats, statsFile, lastOutcome,
                 lastAlertAt, failsSinceClear>>

\* part_001:166-205: the catch block, entered with the stats as st and the
\* thrown value `error`
Caught(st, now, hour, error) ==
  LET counted == CountFailure(st, now)
      info == HandleError(errorState, error, now, cooldown)
  IN IF info.thrown \/ SaveErrorStateRaises(diskOk)
     THEN \* handleError rejects: the cycle ends at line 174 with the
          \* rejection; main()'s catch exits the process on the first
          \* check (part_002:56, 89-94), the cron callback's rejection
          \* is only logged (part_002:19-24, 62-64)
          /\ stats' = counted
          /\ last' = [NoCycle EXCEPT !.seq = cycles + 1,
                                     !.outcome = "aborted", !.hour = hour,
                                     !.probed = TRUE, !.error = error,
                                     !.type = TypeErrorRaised,
                                     !.first = (phase = "first")]
          /\ lastOutcome' = "aborted"
          /\ phase' = IF phase = "first" THEN "down" ELSE phase
          /\ UNCHANGED <<errorState, errorFile, statsFile, lastAlertAt,
                         failsSinceClear>>
     ELSE IF info.shouldNotify
               /\ SendMessageRaises(notificationsEnabled, telegramOk)
     THEN \* sendErrorAlert rejects at line 197, inside the catch block:
          \* the cycle ends there with the rejection
          /\ errorState' = info.state
          /\ errorFile' = SaveErrorStateAfterHandle(errorFile, info.state,
                                                    info.shouldNotify, diskOk)
          /\ stats' = RecordError(counted, info.type)
          /\ last' = [NoCycle EXCEPT !.seq = cycles + 1,
                                     !.outcome = "aborted", !.hour = hour,
                                     !.probed = TRUE, !.error = error,
                                     !.type = info.type,
                                     !.shouldNotify = info.shouldNotify,
                                     !.errorCount = info.errorCount,
                                     !.alerts = 1,
                                     !.first = (phase = "first")]
          /\ lastOutcome' = "aborted"
          /\ failsSinceClear' =
               [failsSinceClear EXCEPT ![info.type] = @ + 1]
          /\ phase' = IF phase = "first" THEN "down" ELSE phase
          /\ UNCHANGED <<statsFile, lastAlertAt>>
     ELSE LET newStats == RecordError(counted, info.type) IN
          /\ errorState' = info.state
          /\ errorFile' = SaveErrorStateAfterHandle(errorFile, info.state,
                                                    info.shouldNotify, diskOk)
          /\ stats' = newStats
          /\ statsFile' = WriteFile(statsFile, newStats, diskOk)
          /\ last' = [NoCycle EXCEPT !.seq = cycles + 1,
                                     !.outcome = "failed", !.hour = hour,
                                     !.probed = TRUE, !.error = error,
                                     !.type = info.type,
                                     !.shouldNotify = info.shouldNotify,
                                     !.errorCount = info.errorCount,
                                     !.alerts = IF info.shouldNotify
                                                THEN 1 ELSE 0,
                                     !.alertResult =
                                       IF info.shouldNotify
                                       THEN SendMessage(notificationsEnabled,
                                                        telegramOk)
                                       ELSE "none",
                                     !.first = (phase = "first")]
          /\ lastOutcome' = "failed"
          /\ lastAlertAt' = IF info.shouldNotify
                            THEN [lastAlertAt EXCEPT ![info.type] = now]
                            ELSE lastAlertAt
          /\ failsSinceClear' =
               [failsSinceClear EXCEPT ![info.type] = @ + 1]
          /\ phase' = AfterCheck(testMode)

\* part_001:136-164: the probe returned a result
CheckSucceeded(now, hour, responseTime) ==
  LET counted == CountSuccess(stats, responseTime, now)
      recovering == NeedsRecovery(counted)
      newStats == IF recovering THEN MarkHealthy(counted) ELSE counted
      newState == ErrorStateAfterSuccess(errorState)
  IN IF recovering /\ SendMessageRaises(notificationsEnabled, telegramOk)
     THEN \* notifyRecovery rejects at line 149, inside try: the catch of
          \* line 166 takes it as the failure of the check
          Caught(newStats, now, hour, TelegramError)
     ELSE /\ stats' = newStats
          /\ errorState' = newState
          /\ errorFile' = WriteFile(errorFile, newState, diskOk)
          /\ statsFile' = WriteFile(statsFile, newStats, diskOk)
          /\ last' = [NoCycle EXCEPT !.seq = cycles + 1,
                                     !.outcome = "success",
                                     !.hour = hour, !.probed = TRUE,
                                     !.recoveries =
                                       IF recovering THEN 1 ELSE 0,
                                     !.recoveryResult =
                                       IF recovering
                                       THEN SendMessage(notificationsEnabled,
                                                        telegramOk)
                                       ELSE "none",
                                     !.first = (phase = "first")]
          /\ lastOutcome' = "success"
          /\ failsSinceClear' = ZeroPerKind
          /\ phase' = AfterCheck(testMode)
          /\ UNCHANGED lastAlertAt

\* part_001:166-205: the probe threw `error`
CheckFailed(now, hour, error) == Caught(stats, now, hour, error)

\* part_001:118-210, one check cycle run to completion
\* invoked when the clock reads `now`, at hour of day `hour`
RunHealthCheck(now, hour, raw, responseTime) ==
  /\ phase \in {"first", "cron"}
  /\ cycles < MaxCycles
  /\ cycles' = cycles + 1
  /\ now >= clock
  /\ clock' = now
  /\ LET hourRead == HourNoted(startHour, endHour, hour) IN
     IF ~IsWithinMonitoringHours(startHour, endHour, hour)
     THEN Skipped(now, hourRead)
     ELSE IF isPaused
     THEN Skipped(now, hourRead)
     ELSE LET result == CreatePixTransaction(raw, enumerableMessage) IN
          IF result.ok
          THEN CheckSucceeded(now, hourRead, responseTime)
          ELSE CheckFailed(now, hourRead, result.error)
  \* part_002:50-51, 56, 89-94: the process exits with 0 after the check
  \* of --test and with 1 when the check main() awaits rejects
  /\ exitCode' = IF phase' # "down" THEN exitCode
                 ELSE IF last'.outcome = "aborted" THEN 1 ELSE 0
  /\ exitBy' = IF phase' # "down" THEN exitBy
               ELSE IF last'.outcome = "aborted" THEN "fatal" ELSE "test"
  /\ UNCHANGED <<configVars, isPaused, diskOk, classifyVars, hoursVars,
                 trackerVars, channelVars, stopNotice, testMode, timerVars,
                 overlapVars>>

\* part_001:306-309
Pause ==
  /\ phase \in {"first", "cron"}
  /\ cycles < MaxCycles
  /\ ~isPaused
  /\ isPaused' = TRUE
  /\ UNCHANGED <<clock, phase, configVars, errorState, errorFile, stats,
                 statsFile, diskOk, cycles, last, lastOutcome, lastAlertAt,
                 failsSinceClear, classifyVars, hoursVars,
                 trackerVars,
                 channelVars, processVars, timerVars,
                 overlapVars>>

\* part_001:314-317
Resume ==
  /\ phase \in {"first", "cron"}
  /\ cycles < MaxCycles
  /\ isPaused
  /\ isPaused' = FALSE
  /\ UNCHANGED <<clock, phase, configVars, errorState, errorFile, stats,
                 statsFile, diskOk, cycles, last, lastOutcome, lastAlertAt,
                 failsSinceClear, classifyVars, hoursVars,
                 trackerVars,
                 channelVars, processVars, timerVars,
                 overlapVars>>

\* part_002:27-37 with part_001:322-335: shutdown() awaits stop(), which
\* saves the stats and sends the shutdown notice, then exits with 0; only
\* a rejection of stop() leads to exit code 1
ShutdownBy(cause) ==
  /\ phase \in {"first", "cron"}
  /\ cycles < MaxCycles
  /\ phase' = "down"
  /\ statsFile' = WriteFile(statsFile, stats, diskOk)
  /\ stopNotice' = SendMessage(notificationsEnabled, telegramOk)
  /\ exitCode' = IF SendMessageRaises(notificationsEnabled, telegramOk)
                 THEN 1 ELSE 0
  /\ exitBy' = cause
  /\ UNCHANGED <<clock, configVars, isPaused, errorState, errorFile, stats,
                 diskOk, cycles, last, lastOutcome, lastAlertAt,
                 failsSinceClear, classifyVars, hoursVars,
                 trackerVars, channelVars, testMode, timerVars,
                 overlapVars>>

\* part_002:7-8: SIGINT or SIGTERM
Shutdown == ShutdownBy("signal")

\* part_002:11-17: an exception nobody caught reaches the process-level
\* handler, which logs it and calls shutdown()
UncaughtException == ShutdownBy("uncaught")

\* a new process: the constructors (errorHandler.js:21-24, part_001:15-31)
\* and initialize() (part_001:36-69) reload the stores.  loadErrorState is
\* started by the constructor and not awaited; it has completed by the time
\* initialize() and the first probe call have.  With notifications enabled
\* initialize() tests the connection (part_001:48-50); testConnection
\* rethrows a failure (part_000:169-175), initialize() rethrows it and
\* main()'s catch exits with 1 (part_002:89-94).
Start ==
  /\ phase = "down"
  /\ cycles < MaxCycles
  /\ stopNotice' = "none"
  /\ IF notificationsEnabled /\ ~telegramOk
     THEN /\ exitCode' = 1
          /\ exitBy' = "fatal"
          /\ UNCHANGED <<phase, errorState, stats, isPaused, lastOutcome>>
     ELSE /\ phase' = "first"
          /\ errorState' = LoadErrorState(errorFile)
          /\ stats' = LoadStats(statsFile)
          /\ isPaused' = FALSE
          /\ lastOutcome' = "none"
          /\ exitCode' = Null
          /\ exitBy' = "none"
  /\ UNCHANGED <<clock, configVars, errorFile, statsFile, diskOk, cycles,
                 last, lastAlertAt, failsSinceClear, classifyVars, hoursVars,
                 trackerVars, channelVars, testMode, timerVars,
                 overlapVars>>

\* the disk starts or stops failing writes
DiskFault ==
  /\ diskOk' = ~diskOk
  /\ UNCHANGED <<clock, phase, configVars, isPaused, errorState, errorFile,
                 stats, statsFile, cycles, last, lastOutcome, lastAlertAt,
                 failsSinceClear, classifyVars, hoursVars,
                 trackerVars,
                 channelVars, processVars, timerVars,
                 overlapVars>>

\* part_002:1-4: the entry module requires node-cron, config, logger and
\* monitor; the name telegramService its status-summary callback uses is
\* bound to nothing
TelegramServiceInScope == FALSE

\* part_002:79-82: the callback of the six-hourly timer.  It awaits
\* monitor.getStatus() and then evaluates telegramService, which raises a
\* ReferenceError inside the async callback: the callback's promise
\* rejects and sendStatusSummary is not called.
StatusTimerFires ==
  /\ phase = "cron"
  /\ firings < MaxFirings
  /\ firings' = firings + 1
  /\ IF TelegramServiceInScope
     THEN statusSent' = statusSent + 1 /\ statusRejected' = statusRejected
     ELSE statusSent' = statusSent /\ statusRejected' = statusRejected + 1
  /\ UNCHANGED <<monitorVars, configVars, diskOk, classifyVars, hoursVars,
                 trackerVars, channelVars, processVars, overlapVars>>

\* the Telegram API starts or stops answering
TelegramFault ==
  /\ telegramOk' = ~telegramOk
  /\ UNCHANGED <<monitorVars, configVars, diskOk, classifyVars, hoursVars,
                 trackerVars, notificationsEnabled, processVars, timerVars,
                 overlapVars>>

\* ------------------------------------------------------ metrics aggregator
\* PerformanceTracker (src/src/utils/logger.js:206-601).  The tracker's time
\* is moment() in whole hours since an epoch: the key 'YYYY-MM-DD-HH' of an
\* hour is its index, the key 'YYYY-MM-DD' of a day is index \div 24.

\* the minTime of a bucket that holds no sample (logger.js:212, 282, 298);
\* larger than every response time
Infinity == 1000000000
\* getCurrentStats keeps the last 10 samples (logger.js:380)
LastShown == 10
\* cleanOldData keeps 7 days (logger.js:342)
RetentionHours == 7 * 24

\* Math.min / Math.max
MathMin(a, b) == IF a < b THEN a ELSE b
MathMax(a, b) == IF a > b THEN a ELSE b

\* Math.round(n / d) for n >= 0, d > 0: to the nearest integer, halves up
MathRound(n, d) == (2 * n + d) \div (2 * d)

\* Math.ceil(n / d) for n >= 0, d > 0
MathCeil(n, d) == (n + d - 1) \div d

\* logger.js:207-220
EmptyMetrics ==
  [current |-> [count |-> 0, totalTime |-> 0, minTime |-> Infinity,
                maxTime |-> 0, samples |-> <<>>],
   hourly |-> [h \in {} |-> 0],
   daily |-> [d \in {} |-> 0],
   lastUpdate |-> Null]

\* logger.js:263-268
Sample(now, responseTime, success, hasPixCode) ==
  [time |-> now, responseTime |-> responseTime, success |-> success,
   hasPixCode |-> hasPixCode]

\* mutant: the oldest samples are kept
LimitSamplesKeepOldest(samples) ==
  IF Len(samples) > maxSamples
  THEN SubSeq(samples, 1, maxSamples)
  ELSE samples

\* logger.js:272-276
LimitSamples(samples) ==
  IF Len(samples) > maxSamples
  THEN SliceLast(samples, maxSamples)
  ELSE samples

\* logger.js:258-276: the running totals and the sample buffer
UpdateCurrent(current, sample) ==
  [count |-> current.count + 1,
   totalTime |-> current.totalTime + sample.responseTime,
   minTime |-> MathMin(current.minTime, sample.responseTime),
   maxTime |-> MathMax(current.maxTime, sample.responseTime),
   samples |-> LimitSamples(Append(current.samples, sample))]

\* logger.js:279-287
EmptyHourBucket ==
  [count |-> 0, totalTime |-> 0, minTime |-> Infinity, maxTime |-> 0,
   failures |-> 0]

\* logger.js:289-293
UpdateHourly(hourly, hour, responseTime, success) ==
  LET bucket == IF hour \in DOMAIN hourly THEN hourly[hour]
                ELSE EmptyHourBucket
  IN [h \in DOMAIN hourly \cup {hour} |->
        IF h = hour
        THEN [count |-> bucket.count + 1,
              totalTime |-> bucket.totalTime + responseTime,
              minTime |-> MathMin(bucket.minTime, responseTime),
              maxTime |-> MathMax(bucket.maxTime, responseTime),
              failures |-> bucket.failures + (IF success THEN 0 ELSE 1)]
        ELSE hourly[h]]

\* logger.js:296-305
EmptyDayBucket ==
  [count |-> 0, totalTime |-> 0, minTime |-> Infinity, maxTime |-> 0,
   failures |-> 0, hourlyBreakdown |-> [h \in {} |-> 0]]

\* logger.js:314-326: the breakdown by hour of day
UpdateBreakdown(breakdown, hourOfDay, responseTime) ==
  LET slot == IF hourOfDay \in DOMAIN breakdown THEN breakdown[hourOfDay]
              ELSE [count |-> 0, totalTime |-> 0, avgTime |-> 0]
  IN [h \in DOMAIN breakdown \cup {hourOfDay} |->
        IF h = hourOfDay
        THEN [count |-> slot.count + 1,
              totalTime |-> slot.totalTime + responseTime,
              avgTime |-> MathRound(slot.totalTime + responseTime,
                                    slot.count + 1)]
        ELSE breakdown[h]]

\* logger.js:296-326
UpdateDaily(daily, hour, responseTime, success) ==
  LET day == hour \div 24
      bucket == IF day \in DOMAIN daily THEN daily[day] ELSE EmptyDayBucket
  IN [d \in DOMAIN daily \cup {day} |->
        IF d = day
        THEN [count |-> bucket.count + 1,
              totalTime |-> bucket.totalTime + responseTime,
              minTime |-> MathMin(bucket.minTime, responseTime),
              maxTime |-> MathMax(bucket.maxTime, responseTime),
              failures |-> bucket.failures + (IF success THEN 0 ELSE 1),
              hourlyBreakdown |->
                UpdateBreakdown(bucket.hourlyBreakdown, hour % 24,
                                responseTime)]
        ELSE daily[d]]

\* logger.js:341-357.  A bucket goes when the start of its period is before
\* mutant: only the hourly buckets are purged
CleanOldHours(m, now, onTheHour) ==
  LET old(start) ==
        start < now - RetentionHours
          \/ (start = now - RetentionHours /\ ~onTheHour)
  IN [m EXCEPT
        !.hourly = [h \in {x \in DOMAIN m.hourly : ~old(x)} |-> m.hourly[h]]]

\* moment() - 7 days; onTheHour says that moment() is the very start of the
\* hour `now`.
CleanOldData(m, now, onTheHour) ==
  LET old(start) ==
        start < now - RetentionHours
          \/ (start = now - RetentionHours /\ ~onTheHour)
  IN [m EXCEPT
        !.hourly = [h \in {x \in DOMAIN m.hourly : ~old(x)} |-> m.hourly[h]],
        !.daily = [d \in {x \in DOMAIN m.daily : ~old(x * 24)} |->
                     m.daily[d]]]

\* logger.js:252-335: the metrics after one recordResponseTime call, before
\* the save.  moment() is read once for the call.
RecordedMetrics(m, sample, now, onTheHour) ==
  CleanOldData(
    [current |-> UpdateCurrent(m.current, sample),
     hourly |-> UpdateHourly(m.hourly, now, sample.responseTime,
                             sample.success),
     daily |-> UpdateDaily(m.daily, now, sample.responseTime, sample.success),
     lastUpdate |-> now],
    now, onTheHour)

\* logger.js:377-381: a sample as last10 shows it; 'HH:mm:ss' keeps the
\* time of day
ShownSample(s) ==
  [time |-> s.time % 24, responseTime |-> s.responseTime,
   success |-> s.success]

\* mutant: the count is read off the sample buffer
GetCurrentStatsFromSamples(m) ==
  IF m.current.count = 0
  THEN [count |-> 0, average |-> 0, min |-> 0, max |-> 0, last10 |-> <<>>]
  ELSE LET shown == SliceLast(m.current.samples, LastShown) IN
       [count |-> Len(m.current.samples),
        average |-> MathRound(m.current.totalTime, m.current.count),
        min |-> IF m.current.minTime = Infinity THEN 0
                ELSE m.current.minTime,
        max |-> m.current.maxTime,
        last10 |-> [i \in 1..Len(shown) |-> ShownSample(shown[i])]]

\* logger.js:362-386
GetCurrentStats(m) ==
  IF m.current.count = 0
  THEN [count |-> 0, average |-> 0, min |-> 0, max |-> 0, last10 |-> <<>>]
  ELSE LET shown == SliceLast(m.current.samples, LastShown) IN
       [count |-> m.current.count,
        average |-> MathRound(m.current.totalTime, m.current.count),
        min |-> IF m.current.minTime = Infinity THEN 0
                ELSE m.current.minTime,
        max |-> m.current.maxTime,
        last10 |-> [i \in 1..Len(shown) |-> ShownSample(shown[i])]]

\* logger.js:395-420: the entry of one hour; 'HH:00' is the hour of day,
\* 'DD/MM' the day
HourEntry(m, hour) ==
  IF hour \in DOMAIN m.hourly
  THEN LET hourData == m.hourly[hour] IN
       [hour |-> hour % 24, date |-> hour \div 24,
        count |-> hourData.count,
        average |-> MathRound(hourData.totalTime, hourData.count),
        min |-> IF hourData.minTime = Infinity THEN 0 ELSE hourData.minTime,
        max |-> hourData.maxTime,
        failures |-> hourData.failures]
  ELSE [hour |-> hour % 24, date |-> hour \div 24, count |-> 0,
        average |-> 0, min |-> 0, max |-> 0, failures |-> 0]

\* mutant: the loop stops before the current hour
GetHourlyStatsWithoutNow(m, now, hours) ==
  [k \in 1..(hours - 1) |-> HourEntry(m, now - (hours - k))]

\* logger.js:391-424: for i = hours-1 down to 0, the entry of now - i hours
GetHourlyStats(m, now, hours) ==
  [k \in 1..hours |-> HourEntry(m, now - (hours - k))]

\* logger.js:484-501: the totals over the buckets of the hours now - i,
\* offset <= i < offset + hours, that hold a sample.  The average returned
\* is totalTime / totalCount, or 0 when totalCount is 0; it is kept as the
\* pair so that no precision is lost.
RECURSIVE SumBuckets(_, _, _, _)
SumBuckets(m, now, i, upTo) ==
  IF i >= upTo
  THEN [totalTime |-> 0, totalCount |-> 0]
  ELSE LET rest == SumBuckets(m, now, i + 1, upTo)
           hour == now - i
       IN IF hour \in DOMAIN m.hourly /\ m.hourly[hour].count > 0
          THEN [totalTime |-> rest.totalTime + m.hourly[hour].totalTime,
                totalCount |-> rest.totalCount + m.hourly[hour].count]
          ELSE rest

CalculateRecentAverage(m, now, hours, offset) ==
  SumBuckets(m, now, offset, offset + hours)

\* an average of calculateRecentAverage is > 0
Positive(avg) == avg.totalCount > 0 /\ avg.totalTime > 0

\* ((recentAvg - olderAvg) / olderAvg) * 100 compared with `percent`, both
\* averages > 0: -1, 0 or 1 as it is below, equal or above
CompareTrend(recentAvg, olderAvg, percent) ==
  LET lhs == 100 * (recentAvg.totalTime * olderAvg.totalCount
                      - olderAvg.totalTime * recentAvg.totalCount)
      rhs == percent * olderAvg.totalTime * recentAvg.totalCount
  IN IF lhs < rhs THEN -1 ELSE IF lhs > rhs THEN 1 ELSE 0

\* totalTime / totalCount is a binary fraction, which a double holds exactly
RECURSIVE OddPart(_)
OddPart(n) == IF n > 0 /\ n % 2 = 0 THEN OddPart(n \div 2) ELSE n

Representable(avg) ==
  avg.totalCount = 0 \/ avg.totalTime % OddPart(avg.totalCount) = 0

\* The side of a threshold on which the double computed at logger.js:442
\* can fall when the exact value of ((recentAvg - olderAvg) / olderAvg) * 100
\* is the threshold itself (-1 below, 0 on it, 1 above).  With both averages
\* held exactly the double is the threshold; an average that is rounded
\* leaves a rounding error of either sign (recentAvg = 1122 / 5 and
\* olderAvg = 204 give 10.000000000000004).  Away from a threshold the
\* rounding error is too small to change the side.
Roundings(recentAvg, olderAvg) ==
  IF Representable(recentAvg) /\ Representable(olderAvg)
  THEN {0}
  ELSE {-1, 0, 1}

\* the comparison of the computed trendPercent with `percent`
CompareComputed(recentAvg, olderAvg, percent, rounding) ==
  LET exact == CompareTrend(recentAvg, olderAvg, percent) IN
  IF exact = 0 THEN rounding ELSE exact

\* logger.js:437-451: 'piorando' (degrading), 'melhorando' (improving),
\* 'estável' (stable)
Trend(recentAvg, olderAvg, rounding) ==
  IF Positive(recentAvg) /\ Positive(olderAvg)
  THEN IF CompareComputed(recentAvg, olderAvg, 10, rounding) > 0
       THEN "piorando"
       ELSE IF CompareComputed(recentAvg, olderAvg, -10, rounding) < 0
       THEN "melhorando"
       ELSE "estavel"
  ELSE "estavel"

\* logger.js:439-442, 471: Math.abs(trendPercent).toFixed(1), in tenths of
\* a percent
TrendPercent(recentAvg, olderAvg) ==
  IF Positive(recentAvg) /\ Positive(olderAvg)
  THEN LET diff == recentAvg.totalTime * olderAvg.totalCount
                     - olderAvg.totalTime * recentAvg.totalCount
       IN MathRound(1000 * (IF diff < 0 THEN -diff ELSE diff),
                    olderAvg.totalTime * recentAvg.totalCount)
  ELSE 0

\* Array.prototype.sort((a, b) => a - b) on numbers
RECURSIVE InsertSorted(_, _)
InsertSorted(x, sorted) ==
  IF sorted = <<>> THEN <<x>>
  ELSE IF x <= Head(sorted) THEN <<x>> \o sorted
  ELSE <<Head(sorted)>> \o InsertSorted(x, Tail(sorted))

RECURSIVE SortAscending(_)
SortAscending(seq) ==
  IF seq = <<>> THEN <<>>
  ELSE InsertSorted(Head(seq), SortAscending(Tail(seq)))

\* mutant: the samples are taken in the order of recording
SortedSamplesUnsorted(m) ==
  [i \in 1..Len(m.current.samples) |-> m.current.samples[i].responseTime]

\* logger.js:460-462
SortedSamples(m) ==
  SortAscending(
    [i \in 1..Len(m.current.samples) |-> m.current.samples[i].responseTime])

\* mutant: the rank is not moved to a 0-based index
CalculatePercentileOffByOne(sortedArray, percentile) ==
  IF Len(sortedArray) = 0 THEN 0
  ELSE LET index == MathCeil(percentile * Len(sortedArray), 100) IN
       sortedArray[MathMin(MathMax(0, index), Len(sortedArray) - 1) + 1]

\* logger.js:506-511 (sortedArray is 1-based here)
CalculatePercentile(sortedArray, percentile) ==
  IF Len(sortedArray) = 0 THEN 0
  ELSE LET index == MathCeil(percentile * Len(sortedArray), 100) - 1 IN
       sortedArray[MathMax(0, index) + 1]

\* mutant: the three latest critical hours are kept
CriticalHoursLatest(last24h, currentStats) ==
  LET Critical(h) == 2 * h.average > 3 * currentStats.average /\ h.count > 0
      critical == SelectSeq(last24h, Critical)
      shown == SliceLast(critical, MathMin(3, Len(critical)))
  IN [i \in 1..Len(shown) |->
        [hour |-> shown[i].hour, average |-> shown[i].average]]

\* logger.js:454-457: the entries with h.average > currentStats.average *
\* 1.5 && h.count > 0, each shown as its hour of day and its average, the
\* first three of them
CriticalHours(last24h, currentStats) ==
  LET Critical(h) == 2 * h.average > 3 * currentStats.average /\ h.count > 0
      critical == SelectSeq(last24h, Critical)
  IN [i \in 1..MathMin(3, Len(critical)) |->
        [hour |-> critical[i].hour, average |-> critical[i].average]]

\* logger.js:429-479; rounding is the side on which the computed
\* trendPercent falls when its exact value is a threshold
GetPerformanceAnalysis(m, now, rounding) ==
  LET last24h == GetHourlyStats(m, now, 24)
      currentStats == GetCurrentStats(m)
      recentAvg == CalculateRecentAverage(m, now, 6, 0)
      olderAvg == CalculateRecentAverage(m, now, 24, 6)
      sortedSamples == SortedSamples(m)
  IN [trend |-> Trend(recentAvg, olderAvg, rounding),
      trendPercent |-> TrendPercent(recentAvg, olderAvg),
      criticalHours |-> CriticalHours(last24h, currentStats),
      percentiles |-> [p50 |-> CalculatePercentile(sortedSamples, 50),
                       p95 |-> CalculatePercentile(sortedSamples, 95),
                       p99 |-> CalculatePercentile(sortedSamples, 99)],
      totalRequests |-> currentStats.count,
      avgResponseTime |-> currentStats.average,
      bestTime |-> currentStats.min,
      worstTime |-> currentStats.max]

\* logger.js:252-338: one recordResponseTime call at the hour trackerNow,
\* run to its end: the update, cleanOldData and saveMetrics.  A written
\* document never holds an Infinity (every bucket written holds a sample),
\* so JSON keeps it as it is.
RecordResponseTime(responseTime, success, hasPixCode, onTheHour) ==
  LET sample == Sample(trackerNow, responseTime, success, hasPixCode)
      updated == RecordedMetrics(metrics, sample, trackerNow, onTheHour)
  IN /\ metrics' = updated
     /\ metricsFile' = WriteFile(metricsFile, updated, diskOk)
     /\ recorded' = Append(recorded, sample)
     /\ UNCHANGED <<monitorVars, configVars, diskOk, classifyVars, hoursVars,
                    trackerNow,
                 channelVars, processVars, timerVars,
                 overlapVars>>

\* logger.js:229-236: the parsed document replaces the metrics; when the
\* file is missing or does not parse the empty catch leaves the metrics the
\* constructor built (logger.js:208-219)
LoadMetrics(file) == IF Readable(file) THEN file.content ELSE EmptyMetrics

\* what can happen to a data file behind the program's back: it is
\* removed, or its text is cut short or garbled
Damaged(file) ==
  {AbsentFile} \cup
    (IF file.exists THEN {[file EXCEPT !.corrupt = TRUE]} ELSE {})

\* a new process builds the tracker (logger.js:207-224, 601): the
\* constructor starts loadMetrics, which has completed before the first
\* recordResponseTime call.  Between the two processes the file may have
\* been damaged.
StartTracker(file) ==
  /\ metricsFile' = file
  /\ metrics' = LoadMetrics(file)
  /\ recorded' = <<>>
  /\ UNCHANGED <<monitorVars, configVars, diskOk, classifyVars, hoursVars,
                 trackerNow, channelVars, processVars, timerVars,
                 overlapVars>>

\* error-state.json or monitor-stats.json is damaged while no process runs
DataFileDamaged ==
  /\ phase = "down"
  /\ cycles < MaxCycles
  /\ \/ errorFile' \in Damaged(errorFile) /\ statsFile' = statsFile
     \/ statsFile' \in Damaged(statsFile) /\ errorFile' = errorFile
  /\ UNCHANGED <<clock, phase, configVars, isPaused, errorState, stats,
                 diskOk, cycles, last, lastOutcome, lastAlertAt,
                 failsSinceClear, classifyVars, hoursVars, trackerVars,
                 channelVars, processVars, timerVars,
                 overlapVars>>

\* the samples recorded: a fast success and a slower failure
SampleInputs ==
  {[responseTime |-> 1, success |-> TRUE],
   [responseTime |-> 2, success |-> FALSE]}

\* time passes: moment() reads a later hour
HourPasses(now) ==
  /\ now > trackerNow
  /\ trackerNow' = now
  /\ UNCHANGED <<monitorVars, configVars, diskOk, classifyVars, hoursVars,
                 metrics, metricsFile, recorded,
                 channelVars, processVars, timerVars,
                 overlapVars>>

\* dataGenerator.isWithinMonitoringHours called at the hour of day `hour`
ReadMonitoringHours(hour) ==
  /\ askedHour = Null
  /\ askedHour' = hour
  /\ within' = IsWithinMonitoringHours(startHour, endHour, hour)
  /\ UNCHANGED <<monitorVars, configVars, diskOk, classifyVars, trackerVars,
                 channelVars, processVars, timerVars,
                 overlapVars>>

\* a fresh installation (no data files) after the first start, with the
\* default configuration of the monitoring window (config.js:27-28: unset)
Init ==
  /\ clock = 1
  /\ phase = "first"
  /\ cooldown \in Cooldowns
  /\ startHour = Null
  /\ endHour = Null
  /\ enumerableMessage \in BOOLEAN
  /\ isPaused = FALSE
  /\ errorFile = AbsentFile
  /\ statsFile = AbsentFile
  /\ errorState = LoadErrorState(AbsentFile)
  /\ stats = LoadStats(AbsentFile)
  /\ diskOk = TRUE
  /\ cycles = 0
  /\ last = NoCycle
  /\ lastOutcome = "none"
  /\ lastAlertAt = NeverPerKind
  /\ failsSinceClear = ZeroPerKind
  /\ failure = NoError
  /\ kind = "none"
  /\ askedHour = Null
  /\ within = TRUE
  /\ metrics = EmptyMetrics
  /\ metricsFile = AbsentFile
  /\ recorded = <<>>
  /\ trackerNow = 0
  /\ notificationsEnabled = TRUE
  /\ telegramOk = TRUE
  /\ exitCode = Null
  /\ exitBy = "none"
  /\ stopNotice = "none"
  /\ testMode = FALSE
  /\ firings = 0
  /\ statusSent = 0
  /\ statusRejected = 0
  /\ RunToCompletion

Next ==
  \/ \E now \in 1..MaxClock, hour \in HourSamples, raw \in ProbeOutcomes,
          rt \in ResponseTimes :
       RunHealthCheck(now, hour, raw, rt)
  \/ Pause
  \/ Resume
  \/ Shutdown
  \/ Start

Spec == Init /\ [][Next]_vars

\* the monitor with a monitoring window configured (any of Windows), a
\* cooldown of one tick and an axios whose errors keep their message
InitWindow ==
  /\ clock = 1
  /\ phase = "first"
  /\ cooldown = 1
  /\ \E w \in Windows : startHour = w[1] /\ endHour = w[2]
  /\ enumerableMessage = TRUE
  /\ isPaused = FALSE
  /\ errorFile = AbsentFile
  /\ statsFile = AbsentFile
  /\ errorState = LoadErrorState(AbsentFile)
  /\ stats = LoadStats(AbsentFile)
  /\ diskOk = TRUE
  /\ cycles = 0
  /\ last = NoCycle
  /\ lastOutcome = "none"
  /\ lastAlertAt = NeverPerKind
  /\ failsSinceClear = ZeroPerKind
  /\ failure = NoError
  /\ kind = "none"
  /\ askedHour = Null
  /\ within = TRUE
  /\ metrics = EmptyMetrics
  /\ metricsFile = AbsentFile
  /\ recorded = <<>>
  /\ trackerNow = 0
  /\ notificationsEnabled = TRUE
  /\ telegramOk = TRUE
  /\ exitCode = Null
  /\ exitBy = "none"
  /\ stopNotice = "none"
  /\ testMode = FALSE
  /\ firings = 0
  /\ statusSent = 0
  /\ statusRejected = 0
  /\ RunToCompletion

SpecWindow == InitWindow /\ [][Next]_vars

\* everything but the configuration, as a fresh installation has it
FreshStores ==
  /\ clock = 1
  /\ phase = "first"
  /\ isPaused = FALSE
  /\ errorFile = AbsentFile
  /\ statsFile = AbsentFile
  /\ errorState = LoadErrorState(AbsentFile)
  /\ stats = LoadStats(AbsentFile)
  /\ diskOk = TRUE
  /\ cycles = 0
  /\ last = NoCycle
  /\ lastOutcome = "none"
  /\ lastAlertAt = NeverPerKind
  /\ failsSinceClear = ZeroPerKind
  /\ failure = NoError
  /\ kind = "none"
  /\ askedHour = Null
  /\ within = TRUE
  /\ metrics = EmptyMetrics
  /\ metricsFile = AbsentFile
  /\ recorded = <<>>
  /\ trackerNow = 0
  /\ telegramOk = TRUE
  /\ exitCode = Null
  /\ exitBy = "none"
  /\ stopNotice = "none"
  /\ firings = 0
  /\ statusSent = 0
  /\ statusRejected = 0
  /\ RunToCompletion

\* a fresh installation run in continuous mode with notifications enabled
FreshInstall ==
  /\ FreshStores
  /\ notificationsEnabled = TRUE
  /\ testMode = FALSE

\* one run of the monitor on a disk whose writes can fail, with an axios
\* whose errors keep their message
InitFaults ==
  /\ FreshInstall
  /\ cooldown \in Cooldowns
  /\ enumerableMessage = TRUE
  /\ startHour = Null
  /\ endHour = Null

\* The disk starts or stops failing between the check cycles of the monitor
\* and between the recordResponseTime calls on the metrics aggregator.  The
\* aggregator shares nothing with the monitor but the disk, so a behaviour
\* exercises one of the two.
NextFaults ==
  \/ \E now \in 1..MaxClock, hour \in HourSamples, raw \in ProbeOutcomes,
          rt \in ResponseTimes :
       /\ Len(recorded) = 0
       /\ RunHealthCheck(now, hour, raw, rt)
  \/ cycles < MaxCycles /\ DiskFault
  \/ \E input \in SampleInputs :
       /\ cycles = 0
       /\ Len(recorded) < MaxFaultCalls
       /\ RecordResponseTime(input.responseTime, input.success, TRUE, FALSE)

SpecFaults == InitFaults /\ [][NextFaults]_vars

\* ------------------------------------------------ an unreliable Telegram API
\* a fresh installation, notifications enabled or not, an axios whose
\* errors keep their message
InitChannel ==
  /\ FreshStores
  /\ notificationsEnabled \in BOOLEAN
  /\ testMode = FALSE
  /\ cooldown \in Cooldowns
  /\ enumerableMessage = TRUE
  /\ startHour = Null
  /\ endHour = Null

\* the Telegram API starts or stops answering between the check cycles
NextChannel ==
  \/ \E now \in 1..MaxClock, hour \in HourSamples, raw \in ProbeOutcomes,
          rt \in ResponseTimes :
       RunHealthCheck(now, hour, raw, rt)
  \/ cycles < MaxCycles /\ TelegramFault

SpecChannel == InitChannel /\ [][NextChannel]_vars

\* ------------------------------------------------------ the process's life
\* a fresh installation started with or without --test, with a cooldown of
\* one tick and an axios whose errors keep their message
InitProcess ==
  /\ FreshStores
  /\ notificationsEnabled = TRUE
  /\ testMode \in BOOLEAN
  /\ cooldown = 1
  /\ enumerableMessage = TRUE
  /\ startHour = Null
  /\ endHour = Null

\* checks, signals, uncaught exceptions, restarts, the status-summary timer
\* and a Telegram API that starts or stops answering
NextProcess ==
  \/ \E now \in 1..MaxClock, hour \in HourSamples, raw \in ProbeOutcomes,
          rt \in ResponseTimes :
       RunHealthCheck(now, hour, raw, rt)
  \/ Shutdown
  \/ UncaughtException
  \/ Start
  \/ StatusTimerFires
  \/ cycles < MaxCycles /\ TelegramFault

SpecProcess == InitProcess /\ [][NextProcess]_vars

\* ------------------------------------------------- restarts over damaged files
\* a fresh installation with a cooldown of one tick and an axios whose
\* errors keep their message
InitLoad ==
  /\ FreshInstall
  /\ cooldown = 1
  /\ enumerableMessage = TRUE
  /\ startHour = Null
  /\ endHour = Null

\* The monitor runs, is shut down and started again, and while it is down
\* its data files can be damaged; or the tracker records samples and is
\* built again over a file that may have been damaged.  The two share no
\* store, so a behaviour exercises one of them.
NextLoad ==
  \/ \E now \in 1..MaxClock, hour \in HourSamples, raw \in ProbeOutcomes,
          rt \in ResponseTimes :
       /\ ~metricsFile.exists
       /\ RunHealthCheck(now, hour, raw, rt)
  \/ Shutdown
  \/ Start
  \/ DataFileDamaged
  \/ \E input \in SampleInputs :
       /\ cycles = 0 /\ phase = "first"
       /\ metrics.current.count < MaxFaultCalls
       /\ RecordResponseTime(input.responseTime, input.success, TRUE, FALSE)
  \/ \E file \in Damaged(metricsFile) \cup {metricsFile} :
       /\ cycles = 0 /\ phase = "first"
       /\ metricsFile.exists
       /\ StartTracker(file)

SpecLoad == InitLoad /\ [][NextLoad]_vars

\* ------------------------------------------- classifyError as a function
InitClassify ==
  /\ Init
  /\ cooldown = 1

\* the caller hands a failure value to classifyError
Classify(error) ==
  /\ failure = NoError /\ kind = "none"
  /\ failure' = error
  /\ kind' = ClassifyError(error)
  /\ UNCHANGED <<clock, phase, configVars, isPaused, errorState, errorFile,
                 stats, statsFile, diskOk, cycles, last, lastOutcome,
                 lastAlertAt, failsSinceClear, hoursVars, trackerVars,
                 channelVars, processVars, timerVars,
                 overlapVars>>

\* createPixTransaction fails and its thrown value is classified
ClassifyThrown(raw) ==
  /\ ~CreatePixTransaction(raw, enumerableMessage).ok
  /\ Classify(CreatePixTransaction(raw, enumerableMessage).error)

NextClassify ==
  \/ \E error \in ErrorValues : Classify(error)
  \/ \E raw \in RawOutcomes : ClassifyThrown(raw)

SpecClassify == InitClassify /\ [][NextClassify]_vars

\* ---------------------------------- isWithinMonitoringHours as a function
\* config.js:27-28: each of MONITOR_START_HOUR / MONITOR_END_HOUR is unset
\* (null) or parsed to an hour 0..23
ConfigHours == (0..23) \cup {Null}
HoursOfDay == 0..23

InitHours ==
  /\ FreshInstall
  /\ cooldown = 1
  /\ enumerableMessage = TRUE
  /\ startHour \in ConfigHours
  /\ endHour \in ConfigHours

NextHours == \E hour \in HoursOfDay : ReadMonitoringHours(hour)

SpecHours == InitHours /\ [][NextHours]_vars

\* ------------------------------------------- the sample buffer under load
\* the next sample of a stream that repeats its first `period` samples
Repeats(input, period) ==
  IF Len(recorded) < period
  THEN TRUE
  ELSE LET again == recorded[Len(recorded) - period + 1] IN
       /\ input.responseTime = again.responseTime
       /\ input.success = again.success

InitTracker ==
  /\ FreshInstall
  /\ cooldown = 1
  /\ enumerableMessage = TRUE
  /\ startHour = Null
  /\ endHour = Null

\* every stream of period MaxFree over SampleInputs, recorded within one
\* hour until the buffer has overflowed by MaxExtra samples
NextSamples ==
  \E input \in SampleInputs :
    /\ Len(recorded) < maxSamples + MaxExtra
    /\ Repeats(input, MaxFree)
    /\ RecordResponseTime(input.responseTime, input.success, TRUE, FALSE)

SpecSamples == InitTracker /\ [][NextSamples]_vars

\* --------------------------------------------------- the hourly buckets
\* the samples recorded: response times in ms, the slower one a failure
HourlyInputs ==
  {[responseTime |-> 204, success |-> TRUE],
   [responseTime |-> 306, success |-> FALSE]}

\* the hours at which the tracker is used after hour 0: 6 hours later and
\* a day later
HourPoints == {6, 24}

\* up to MaxHourlyCalls samples recorded while the hours pass
NextHourly ==
  \/ \E input \in HourlyInputs, onTheHour \in BOOLEAN :
       /\ Len(recorded) < MaxHourlyCalls
       /\ RecordResponseTime(input.responseTime, input.success, TRUE,
                             onTheHour)
  \/ \E now \in HourPoints : HourPasses(now)

SpecHourly == InitTracker /\ [][NextHourly]_vars

\* ------------------------------------------------ the windows of the trend
\* the hours at which the tracker is used after hour 0; at hour 32 the
\* buckets are 32, 30, 24, 6 and 0 hours old, at hour 26 they are 26, 24,
\* 18 and 0 hours old
WindowPoints == {2, 8, 26, 32}

\* up to MaxHourlyCalls samples recorded while the hours pass
NextWindows ==
  \/ \E input \in HourlyInputs :
       /\ Len(recorded) < MaxHourlyCalls
       /\ RecordResponseTime(input.responseTime, input.success, TRUE, FALSE)
  \/ \E now \in WindowPoints : HourPasses(now)

SpecWindows == InitTracker /\ [][NextWindows]_vars

\* ------------------------------------------------- the cycles in flight
\* part_001:118-210 split at its awaits.  A cycle in flight is suspended at
\* pc: "probe" (line 137), "recovery" (line 149), "clearSave" (line 153,
\* inside clearErrorState at errorHandler.js:243), "handleSave" (line 174,
\* inside handleError at errorHandler.js:207), "alert" (line 197) or
\* "statsSave" (lines 164 and 204).  doc is the text JSON.stringify built
\* when the pending write was issued, errorCount the count handleError
\* returned.
NewCycle ==
  [id |-> cycles + 1, pc |-> "probe", age |-> 0, type |-> "none",
   shouldNotify |-> FALSE, errorCount |-> 0, doc |-> Null]

Without(i) ==
  [j \in 1..(Len(running) - 1) |->
     IF j < i THEN running[j] ELSE running[j + 1]]

Put(i, cycle) == [running EXCEPT ![i] = cycle]

\* what no step of a cycle in flight changes
overlapFrame ==
  <<isPaused, last, lastOutcome, lastAlertAt, failsSinceClear, configVars,
    diskOk, classifyVars, hoursVars, trackerVars, channelVars, stopNotice,
    testMode, timerVars, interval, cycleLimit>>

\* the cycle running[i] is over.  part_002:54-64, 89-94: main() awaits the
\* first check; when it rejects the process exits with 1, otherwise the
\* recurring checks are scheduled and the timer is next due at the next
\* minute that is a multiple of the interval, less than an interval away
Ends(i, aborted) ==
  /\ running' = Without(i)
  /\ IF phase = "first"
     THEN IF aborted
          THEN /\ phase' = "down"
               /\ exitCode' = 1
               /\ exitBy' = "fatal"
               /\ sinceFire' = sinceFire
          ELSE /\ phase' = "cron"
               /\ \E since \in 0..(interval - 1) : sinceFire' = since
               /\ UNCHANGED <<exitCode, exitBy>>
     ELSE UNCHANGED <<phase, sinceFire, exitCode, exitBy>>

\* part_002:54-56: the first check is started
FirstCheckStarts ==
  /\ phase = "first"
  /\ running = <<>>
  /\ cycles = 0
  /\ ~isPaused
  /\ IsWithinMonitoringHours(startHour, endHour, Null)
  /\ cycles' = 1
  /\ running' = <<NewCycle>>
  /\ UNCHANGED <<clock, phase, errorState, errorFile, stats, statsFile,
                 sinceFire, exitCode, exitBy, overlapFrame,
                 recoveryNotices>>

\* part_002:62-64: the timer is due and its callback calls runHealthCheck,
\* whatever the earlier calls are doing
TimerFires ==
  /\ phase = "cron"
  /\ sinceFire = interval
  /\ cycles < MaxCycles
  /\ sinceFire' = 0
  /\ cycles' = cycles + 1
  /\ running' =
       IF isPaused \/ ~IsWithinMonitoringHours(startHour, endHour, Null)
       THEN running
       ELSE Append(running, NewCycle)
  /\ UNCHANGED <<clock, phase, errorState, errorFile, stats, statsFile,
                 exitCode, exitBy, overlapFrame,
                 recoveryNotices>>

\* mutant: nothing bounds the time a cycle takes
CanTakeLongerAlways(age, limit) == TRUE

\* for4Service.js:10, part_000:14: the request to For4 and the requests to
\* Telegram time out, so a cycle that has taken `limit` ticks is over
\* before the next tick
CanTakeLonger(age, limit) == age < limit

\* a tick of the clock passes for the timer and for every cycle in flight
Tick ==
  /\ phase \in {"first", "cron"}
  /\ phase = "cron" \/ running # <<>>
  /\ clock < 1 + MaxTicks
  /\ phase = "cron" => sinceFire < interval
  /\ \A i \in 1..Len(running) : CanTakeLonger(running[i].age, cycleLimit)
  /\ clock' = clock + 1
  /\ sinceFire' = IF phase = "cron" THEN sinceFire + 1 ELSE sinceFire
  /\ running' = [i \in 1..Len(running) |->
                  [running[i] EXCEPT !.age = @ + 1]]
  /\ UNCHANGED <<phase, errorState, errorFile, stats, statsFile, cycles,
                 exitCode, exitBy, overlapFrame,
                 recoveryNotices>>

\* part_001:137-153 and 166-174: the request of running[i] settles and the
\* cycle runs on to its next await
ProbeSettles(i, raw, responseTime) ==
  LET c == running[i]
      result == CreatePixTransaction(raw, enumerableMessage)
  IN /\ c.pc = "probe"
     /\ IF result.ok
        THEN LET counted == CountSuccess(stats, responseTime, clock) IN
             IF NeedsRecovery(counted)
             THEN /\ stats' = MarkHealthy(counted)
                  /\ running' = Put(i, [c EXCEPT !.pc = "recovery"])
                  /\ recoveryNotices' =
                       Append(recoveryNotices, counted.failedChecks)
                  /\ UNCHANGED <<errorState, phase, sinceFire, exitCode,
                                 exitBy>>
             ELSE LET cleared == ErrorStateAfterSuccess(errorState) IN
                  /\ stats' = counted
                  /\ errorState' = cleared
                  /\ running' = Put(i, [c EXCEPT !.pc = "clearSave",
                                                 !.doc = cleared])
                  /\ UNCHANGED <<phase, sinceFire, exitCode, exitBy,
                                 recoveryNotices>>
        ELSE LET info == HandleError(errorState, result.error, clock,
                                     cooldown) IN
             /\ stats' = CountFailure(stats, clock)
             /\ UNCHANGED recoveryNotices
             /\ IF info.thrown
                THEN /\ Ends(i, TRUE)
                     /\ UNCHANGED errorState
                ELSE /\ errorState' = info.state
                     /\ running' =
                          Put(i, [c EXCEPT !.pc = "handleSave",
                                           !.type = info.type,
                                           !.shouldNotify = info.shouldNotify,
                                           !.doc = info.state])
                     /\ UNCHANGED <<phase, sinceFire, exitCode, exitBy>>
     /\ UNCHANGED <<clock, errorFile, statsFile, cycles, overlapFrame>>

\* part_001:149-153: the recovery notice of running[i] has been sent (or
\* not: sendMessage never rejects) and clearErrorState resets the state
RecoverySent(i) ==
  LET c == running[i]
      cleared == ErrorStateAfterSuccess(errorState)
  IN /\ c.pc = "recovery"
     /\ errorState' = cleared
     /\ running' = Put(i, [c EXCEPT !.pc = "clearSave", !.doc = cleared])
     /\ UNCHANGED <<clock, phase, errorFile, stats, statsFile, cycles,
                    sinceFire, exitCode, exitBy, overlapFrame,
                 recoveryNotices>>

\* errorHandler.js:42-52: the write of error-state.json issued by
\* running[i] completes.  After clearErrorState the cycle goes on to
\* saveStats (part_001:164); after handleError's save the entry's count is
\* read (errorHandler.js:214), a TypeError when the entry is gone, and the
\* catch block goes on to its summary (part_001:177-193) and to the alert
\* or saveStats
ErrorStateSaved(i) ==
  LET c == running[i] IN
  /\ c.pc \in {"clearSave", "handleSave"}
  /\ errorFile' = WriteFile(errorFile, c.doc, diskOk)
  /\ IF c.pc = "clearSave"
     THEN /\ running' = Put(i, [c EXCEPT !.pc = "statsSave", !.doc = stats])
          /\ UNCHANGED <<stats, phase, sinceFire, exitCode, exitBy>>
     ELSE IF c.type \notin DOMAIN errorState
     THEN /\ Ends(i, TRUE)
          /\ UNCHANGED stats
     ELSE LET newStats == RecordError(stats, c.type) IN
          /\ stats' = newStats
          /\ running' =
               Put(i, [c EXCEPT !.pc = IF c.shouldNotify THEN "alert"
                                       ELSE "statsSave",
                                !.errorCount = errorState[c.type].count,
                                !.doc = newStats])
          /\ UNCHANGED <<phase, sinceFire, exitCode, exitBy>>
  /\ UNCHANGED <<clock, errorState, statsFile, cycles, overlapFrame,
                 recoveryNotices>>

\* part_001:196-204: the alert of running[i] has been sent (or not) and
\* saveStats is called
AlertSent(i) ==
  LET c == running[i] IN
  /\ c.pc = "alert"
  /\ running' = Put(i, [c EXCEPT !.pc = "statsSave", !.doc = stats])
  /\ UNCHANGED <<clock, phase, errorState, errorFile, stats, statsFile,
                 cycles, sinceFire, exitCode, exitBy, overlapFrame,
                 recoveryNotices>>

\* part_001:107-113, 206-209: the write of monitor-stats.json issued by
\* running[i] completes and the cycle is over
StatsSaved(i) ==
  LET c == running[i] IN
  /\ c.pc = "statsSave"
  /\ statsFile' = WriteFile(statsFile, c.doc, diskOk)
  /\ Ends(i, FALSE)
  /\ UNCHANGED <<clock, errorState, errorFile, stats, cycles, overlapFrame,
                 recoveryNotices>>

\* config.js:24: CHECK_INTERVAL_MINUTES, in ticks
Intervals == {MaxInterval}

\* the longest a cycle can take: less than an interval, or a whole one
CycleLimits == {MaxInterval - 1, MaxInterval}

\* the monitor of a fresh installation with an interval between the checks
\* and a longest duration of a cycle, shorter than the interval or not
InitOverlap ==
  /\ clock = 1
  /\ phase = "first"
  /\ cooldown = 1
  /\ startHour = Null
  /\ endHour = Null
  /\ enumerableMessage = TRUE
  /\ isPaused = FALSE
  /\ errorFile = AbsentFile
  /\ statsFile = AbsentFile
  /\ errorState = LoadErrorState(AbsentFile)
  /\ stats = LoadStats(AbsentFile)
  /\ diskOk = TRUE
  /\ cycles = 0
  /\ last = NoCycle
  /\ lastOutcome = "none"
  /\ lastAlertAt = NeverPerKind
  /\ failsSinceClear = ZeroPerKind
  /\ failure = NoError
  /\ kind = "none"
  /\ askedHour = Null
  /\ within = TRUE
  /\ metrics = EmptyMetrics
  /\ metricsFile = AbsentFile
  /\ recorded = <<>>
  /\ trackerNow = 0
  /\ notificationsEnabled = TRUE
  /\ telegramOk = TRUE
  /\ exitCode = Null
  /\ exitBy = "none"
  /\ stopNotice = "none"
  /\ testMode = FALSE
  /\ firings = 0
  /\ statusSent = 0
  /\ statusRejected = 0
  /\ running = <<>>
  /\ sinceFire = 0
  /\ interval \in Intervals
  /\ cycleLimit \in CycleLimits
  /\ recoveryNotices = <<>>

NextOverlap ==
  \/ FirstCheckStarts
  \/ TimerFires
  \/ Tick
  \/ \E i \in 1..Len(running), raw \in ProbeOutcomes, rt \in ResponseTimes :
       ProbeSettles(i, raw, rt)
  \/ \E i \in 1..Len(running) : RecoverySent(i)
  \/ \E i \in 1..Len(running) : ErrorStateSaved(i)
  \/ \E i \in 1..Len(running) : AlertSent(i)
  \/ \E i \in 1..Len(running) : StatsSaved(i)

SpecOverlap == InitOverlap /\ [][NextOverlap]_vars

\* ------------------------------------------------------- the long history
\* the error summaries of n failed checks, timeouts and API errors in turn
PastErrors(n) ==
  [i \in 1..n |-> IF i % 2 = 1 THEN "TIMEOUT_ERROR" ELSE "API_ERROR"]

\* the stats after n failed checks whose errors were handled and one
\* successful check after them, all at the first tick (part_001:141-153,
\* 168-193), for n of at most 100
StatsAfterFailures(n) ==
  [totalChecks |-> n + 1, successfulChecks |-> 1, failedChecks |-> n,
   totalResponseTime |-> 3, errors |-> PastErrors(n), lastCheck |-> 1,
   lastError |-> PastErrors(n)[n], isHealthy |-> TRUE]

\* the monitor is started over the files an earlier process left: its list
\* of error summaries is full or one short of full, the error state was
\* cleared by its last check
InitHistory ==
  /\ clock = 1
  /\ phase = "first"
  /\ cooldown \in Cooldowns
  /\ startHour = Null
  /\ endHour = Null
  /\ enumerableMessage \in BOOLEAN
  /\ isPaused = FALSE
  /\ errorFile = FileWith(EmptyErrorState)
  /\ \E n \in {MaxErrors - 1, MaxErrors} :
       statsFile = FileWith(StatsAfterFailures(n))
  /\ errorState = LoadErrorState(errorFile)
  /\ stats = LoadStats(statsFile)
  /\ diskOk = TRUE
  /\ cycles = 0
  /\ last = NoCycle
  /\ lastOutcome = "none"
  /\ lastAlertAt = NeverPerKind
  /\ failsSinceClear = ZeroPerKind
  /\ failure = NoError
  /\ kind = "none"
  /\ askedHour = Null
  /\ within = TRUE
  /\ metrics = EmptyMetrics
  /\ metricsFile = AbsentFile
  /\ recorded = <<>>
  /\ trackerNow = 0
  /\ notificationsEnabled = TRUE
  /\ telegramOk = TRUE
  /\ exitCode = Null
  /\ exitBy = "none"
  /\ stopNotice = "none"
  /\ testMode = FALSE
  /\ firings = 0
  /\ statusSent = 0
  /\ statusRejected = 0
  /\ RunToCompletion

SpecHistory == InitHistory /\ [][Next]_vars

\* ----------------------------------------------------------- the retention
\* the hours at which the tracker is used after hour 0: within the first
\* day, a day later, and around 7 days after hour 0 and after hour 24
RetentionPoints == {1, 24, 168, 169, 192}

\* samples are recorded, on the hour or within it, while the days pass
NextRetention ==
  \/ \E input \in HourlyInputs, onTheHour \in BOOLEAN :
       /\ Len(recorded) < MaxRetentionCalls
       /\ RecordResponseTime(input.responseTime, input.success, TRUE,
                             onTheHour)
  \/ \E now \in RetentionPoints : HourPasses(now)

SpecRetention == InitTracker /\ [][NextRetention]_vars

\* ------------------------------------------------------ the critical hours
\* the samples recorded: a fast and a slow response, in ms
CriticalInputs ==
  {[responseTime |-> 100, success |-> TRUE],
   [responseTime |-> 1000, success |-> TRUE]}

\* the hours at which the tracker is used after hour 0; at hour 26 the last
\* 24 hours are the hours 3 to 26
CriticalPoints == {1, 2, 3, 4, 26}

\* the tracker first records EarlierCalls fast samples at hour 0, then up
\* to MaxCriticalCalls samples while the hours pass
NextCritical ==
  \/ /\ Len(recorded) < EarlierCalls
     /\ trackerNow = 0
     /\ RecordResponseTime(100, TRUE, TRUE, FALSE)
  \/ \E input \in CriticalInputs :
       /\ Len(recorded) >= EarlierCalls
       /\ Len(recorded) < EarlierCalls + MaxCriticalCalls
       /\ RecordResponseTime(input.responseTime, input.success, TRUE, FALSE)
  \/ \E now \in CriticalPoints :
       /\ Len(recorded) >= EarlierCalls
       /\ HourPasses(now)

SpecCritical == InitTracker /\ [][NextCritical]_vars

\* ----------------------------------------------------- the percentiles
\* response times in ms
PercentileValues == {100, 200, 300, 400, 500}

\* the next sample of a stream that stays at its sample number `free`
Stays(input, free) ==
  IF Len(recorded) < free
  THEN TRUE
  ELSE /\ input.responseTime = recorded[Len(recorded)].responseTime
       /\ input.success = recorded[Len(recorded)].success

\* the streams of successful samples whose first
\* Cardinality(PercentileValues) samples are free and which then stay at
\* the last of them, recorded within one hour until the buffer is full
NextPercentile ==
  \E responseTime \in PercentileValues :
    /\ Len(recorded) < maxSamples
    /\ Stays([responseTime |-> responseTime, success |-> TRUE],
             Cardinality(PercentileValues))
    /\ RecordResponseTime(responseTime, TRUE, TRUE, FALSE)

SpecPercentile == InitTracker /\ [][NextPercentile]_vars


\* ================================================================== claims
\* a step that is one runHealthCheck invocation
CycleStep == last'.seq # last.seq

\* a step in which handleError returned for a failure of kind last'.type
HandledStep == CycleStep /\ last'.outcome = "failed"

\* C1: handleError returns shouldNotify = TRUE on the first failure of a
\* kind since the last clear; FALSE on every further failure of that kind
\* less than the cooldown after its last notified failure, leaving
\* lastNotification as it was; TRUE again on a failure at or after
\* lastNotification + cooldown, stamping lastNotification with its time.
C1_CooldownRule ==
  [][HandledStep =>
       LET K == last'.type IN
       IF failsSinceClear[K] = 0
       THEN /\ last'.shouldNotify
            /\ errorState'[K].lastNotification = clock'
       ELSE IF clock' - lastAlertAt[K] < cooldown
       THEN /\ ~last'.shouldNotify
            /\ errorState'[K].lastNotification = lastAlertAt[K]
       ELSE /\ last'.shouldNotify
            /\ errorState'[K].lastNotification = clock'
  ]_vars

\* C1 witness: a third failure of a kind notified again after the cooldown
\* of 2 ticks, the second one having been suppressed
C1_Witness ==
  /\ last.outcome = "failed"
  /\ last.errorCount = 3
  /\ last.shouldNotify
  /\ cooldown = 2
  /\ errorState[last.type].firstOccurrence = 1

\* C2: a successful check whose preceding check of the run failed leaves
\* the error state without any entry and hands exactly one recovery
\* notification to the channel, whatever the entries' lastNotification.
C2_RecoveryAfterFailure ==
  [][(CycleStep /\ last'.outcome = "success"
        /\ lastOutcome \in {"failed", "aborted"})
       => (DOMAIN errorState' = {} /\ last'.recoveries = 1)
  ]_vars

\* C2 witness: a recovery right after a failure that had just notified
\* (the kind's cooldown is still running)
C2_Witness ==
  /\ last.outcome = "success"
  /\ last.recoveries = 1
  /\ errorState = EmptyErrorState
  /\ \E k \in ErrorTypes : lastAlertAt[k] = clock /\ cooldown = 2

\* C6: the errorCount handleError returns, and the count stored in the
\* entry, is the number of failed checks of that kind since the last
\* successful check, restarts of the process included.
C6_ConsecutiveCount ==
  /\ last.outcome = "failed" => last.errorCount = failsSinceClear[last.type]
  /\ phase # "down" =>
       \A k \in ErrorTypes :
         IF k \in DOMAIN errorState
         THEN errorState[k].count = failsSinceClear[k]
         ELSE failsSinceClear[k] = 0

\* C6 witness: the third consecutive failure of a kind, handled as the
\* first check after a restart, counted 3 and notified on the first only
C6_Witness ==
  /\ last.outcome = "failed"
  /\ last.first
  /\ last.errorCount = 3
  /\ ~last.shouldNotify
  /\ errorState[last.type].lastNotification
       = errorState[last.type].firstOccurrence

\* C8: once a check of the run has been made, stats.isHealthy is true
\* exactly when the latest non-skipped check succeeded.
C8_HealthFollowsLastCheck ==
  lastOutcome # "none" => (stats.isHealthy <=> lastOutcome = "success")

\* C8 witness: healthy again after a failed check
C8_Witness ==
  /\ lastOutcome = "success"
  /\ stats.failedChecks > 0
  /\ stats.isHealthy

\* the failure values createPixTransaction can throw
ThrownValues ==
  {CreatePixTransaction(raw, e).error :
     raw \in {r \in RawOutcomes : ~CreatePixTransaction(r, TRUE).ok},
     e \in BOOLEAN}

\* C3: classifyError returns one of the seven kinds, and never raises, for
\* every failure value createPixTransaction can throw.
C3_ClassifyTotal ==
  (kind # "none" /\ failure \in ThrownValues) => kind \in ErrorTypes

\* C4: a failed check whose response lacked a required field is handled
\* as INVALID_RESPONSE, and as NO_PIX_CODE when pixCode or pixQrCode is
\* missing: that kind is returned by handleError and recorded in the error
\* state and in stats.errors.
C4_ValidationKinds ==
  (last.outcome \in {"failed", "aborted"} /\ last.error.type # "none") =>
    /\ last.outcome = "failed"
    /\ last.type = last.error.type
    /\ last.type \in DOMAIN errorState
    /\ Len(stats.errors) > 0
    /\ stats.errors[Len(stats.errors)] = last.error.type

\* the kind the stated precedence of rules gives a failure value
KindByPrecedence(error) ==
  IF error.code = "ECONNABORTED" \/ error.message = "timeout"
  THEN "TIMEOUT_ERROR"
  ELSE IF error.code \in {"ENOTFOUND", "ECONNREFUSED"}
  THEN "NETWORK_ERROR"
  ELSE IF error.hasResponse /\ error.status \in {401, 403}
  THEN "AUTH_ERROR"
  ELSE IF error.hasResponse /\ error.status >= 400
  THEN "API_ERROR"
  ELSE "UNKNOWN_ERROR"

\* C5: classifyError returns the kind of the first matching rule in the
\* order timeout, network, 401/403, status >= 400, and UNKNOWN_ERROR for
\* everything else.
C5_ClassifyPrecedence ==
  kind # "none" => kind = KindByPrecedence(failure)

\* the precedence on the failure values that carry a message (on these
\* classifyError does not raise)
ClassifyPrecedenceWithMessage ==
  (kind # "none" /\ failure.message # "absent")
    => kind = KindByPrecedence(failure)

\* a step in which sendErrorAlert is called for kind last'.type
AlertStep == HandledStep /\ last'.alerts = 1

SavedHealth == IF statsFile.exists THEN statsFile.content.isHealthy ELSE TRUE

\* the first check of a run succeeds
FirstCheckSucceeds == CycleStep /\ phase = "first" /\ last'.outcome = "success"

\* C9 as stated: before the first check of a run the monitor is HEALTHY and
\* a successful first check sends no recovery notification.
C9_StartsHealthy ==
  /\ phase = "first" => stats.isHealthy
  /\ (last.first /\ last.outcome = "success") => last.recoveries = 0

\* C9 amended: before the first check of a run the monitor's health is the
\* isHealthy value monitor-stats.json holds, HEALTHY when there is no file;
\* a successful first check sends a recovery notification exactly when
\* that value is UNHEALTHY.
C9_StartsWithSavedHealth ==
  /\ [](phase = "first" => stats.isHealthy = SavedHealth)
  /\ [][FirstCheckSucceeds =>
          last'.recoveries = (IF SavedHealth THEN 0 ELSE 1)]_vars

\* C9 witness: a run that started UNHEALTHY from the file and recovered on
\* its first check
C9_Witness ==
  /\ last.first
  /\ last.outcome = "success"
  /\ last.recoveries = 1

\* the monitoring window as configured: [start, end), or
\* [start, 24) and [0, end) when end < start; always open when unset
InConfiguredWindow(start, end, hour) ==
  IF start = Null \/ end = Null
  THEN TRUE
  ELSE IF end < start
  THEN hour >= start \/ hour < end
  ELSE hour >= start /\ hour < end

\* C10: a cycle that starts while the monitor is paused or while the hour
\* is outside the configured window makes no probe call, sends nothing
\* and leaves the stats, the error state and the files as they were.
C10_SkippedOutsideWindowOrPaused ==
  [][(CycleStep /\ (isPaused
                      \/ ~InConfiguredWindow(startHour, endHour, last'.hour)))
       => /\ last'.outcome = "skipped"
          /\ ~last'.probed
          /\ last'.alerts = 0 /\ last'.recoveries = 0
          /\ UNCHANGED <<stats, errorState, errorFile, statsFile>>
  ]_vars

\* the frame of the cycles the code does skip
SkippedCycleChangesNothing ==
  [][(CycleStep /\ last'.outcome = "skipped")
       => /\ ~last'.probed
          /\ last'.alerts = 0 /\ last'.recoveries = 0
          /\ UNCHANGED <<stats, errorState, errorFile, statsFile>>
  ]_vars

\* C11: for start and end hours in 0..23 and every hour h of the day,
\* isWithinMonitoringHours is true exactly when h is in [start, end) if
\* start < end, and exactly when h is in [start, 24) or [0, end) if
\* end < start; with no window configured it is always true.
C11_WindowRule ==
  askedHour # Null =>
    IF startHour = Null /\ endHour = Null
    THEN within
    ELSE IF startHour = Null \/ endHour = Null
    THEN TRUE
    ELSE IF startHour < endHour
    THEN within <=> (askedHour >= startHour /\ askedHour < endHour)
    ELSE IF endHour < startHour
    THEN within <=> (askedHour >= startHour \/ askedHour < endHour)
    ELSE TRUE

\* the same rule for windows whose start and end are hours 1..23
WindowRuleForNonZeroHours ==
  (askedHour # Null /\ startHour \in 1..23 /\ endHour \in 1..23
     /\ startHour # endHour)
    => (within <=> InConfiguredWindow(startHour, endHour, askedHour))

\* the sum of the response times of seq[from..to]
RECURSIVE SumResponseTimes(_, _, _)
SumResponseTimes(seq, from, to) ==
  IF from > to THEN 0
  ELSE IF from = to THEN seq[from].responseTime
  ELSE LET mid == (from + to) \div 2 IN
       SumResponseTimes(seq, from, mid) + SumResponseTimes(seq, mid + 1, to)

RecordedTotal == SumResponseTimes(recorded, 1, Len(recorded))

C13_BufferIsMostRecent ==
  LET n == Len(recorded)
      k == IF n < maxSamples THEN n ELSE maxSamples
      j == IF n < 10 THEN n ELSE 10
      samples == metrics.current.samples
      last10 == GetCurrentStats(metrics).last10
  IN /\ Len(samples) <= maxSamples
     /\ Len(samples) = k
     /\ \A i \in 1..k : samples[i] = recorded[n - k + i]
     /\ Len(last10) = j
     /\ \A i \in 1..j :
          /\ last10[i].responseTime = recorded[n - j + i].responseTime
          /\ last10[i].success = recorded[n - j + i].success

\* C13 witness: two samples were evicted, the oldest kept one differs from
\* the oldest recorded one
C13_Witness ==
  /\ Len(recorded) = maxSamples + 2
  /\ Len(metrics.current.samples) = maxSamples
  /\ metrics.current.samples[1] # recorded[1]
  /\ Len(GetCurrentStats(metrics).last10) = 10

\* the recorded samples of the hour `hour`
RecordedIn(hour) == {i \in 1..Len(recorded) : recorded[i].time = hour}

\* C14: for every h >= 1 getHourlyStats(h) returns exactly h entries, one
\* per clock hour from h-1 hours ago to the current hour, oldest first; the
\* entry of an hour without a bucket has count, average, min, max and
\* failures 0.
C14_HourlyStatsShape ==
  \A h \in 1..MaxHoursAsked :
    LET s == GetHourlyStats(metrics, trackerNow, h) IN
    /\ DOMAIN s = 1..h
    /\ \A k \in 1..h :
         LET hour == trackerNow - (h - 1) + (k - 1) IN
         /\ s[k].hour = hour % 24
         /\ s[k].date = hour \div 24
         /\ s[k].count = Cardinality(RecordedIn(hour))
         /\ s[k].failures
              = Cardinality({i \in RecordedIn(hour) : ~recorded[i].success})
         /\ RecordedIn(hour) = {} =>
              /\ s[k].average = 0
              /\ s[k].min = 0
              /\ s[k].max = 0

\* C14 witness: 24 hours asked at hour 24; the hour 6 holds samples, the
\* oldest hour asked and the current hour hold none
C14_Witness ==
  LET s == GetHourlyStats(metrics, trackerNow, 24) IN
  /\ trackerNow = 24
  /\ s[1].count = 0
  /\ s[24].count = 0
  /\ \E k \in 2..23 : s[k].count >= 2 /\ s[k].failures = 1 /\ s[k].max = 306

\* the averages of the recent and of the older window of the trend
RecentAvg == CalculateRecentAverage(metrics, trackerNow, 6, 0)
OlderAvg == CalculateRecentAverage(metrics, trackerNow, 24, 6)

\* the trend the stated rule gives: improving below -10%, degrading above
\* +10%, stable otherwise and when a window holds no sample
TrendByRule ==
  IF RecentAvg.totalCount = 0 \/ OlderAvg.totalCount = 0
  THEN "estavel"
  ELSE LET num == RecentAvg.totalTime * OlderAvg.totalCount
                    - OlderAvg.totalTime * RecentAvg.totalCount
           den == OlderAvg.totalTime * RecentAvg.totalCount
       IN IF 10 * num < -den THEN "melhorando"
          ELSE IF 10 * num > den THEN "piorando"
          ELSE "estavel"

\* C17: getPerformanceAnalysis reports 'improving' when (recentAvg -
\* olderAvg) / olderAvg < -0.10, 'degrading' when it is > +0.10, 'stable'
\* otherwise, exactly -10% and +10% included; with no sample in the recent
\* or in the older window it reports 'stable' and a trend percent of 0.
C17_TrendRule ==
  \A rounding \in Roundings(RecentAvg, OlderAvg) :
    LET a == GetPerformanceAnalysis(metrics, trackerNow, rounding) IN
    /\ a.trend = TrendByRule
    /\ (RecentAvg.totalCount = 0 \/ OlderAvg.totalCount = 0)
         => a.trendPercent = 0

\* the same rule where both averages are held exactly by a double
TrendRuleForExactAverages ==
  (Representable(RecentAvg) /\ Representable(OlderAvg)) =>
    \A rounding \in Roundings(RecentAvg, OlderAvg) :
      LET a == GetPerformanceAnalysis(metrics, trackerNow, rounding) IN
      /\ a.trend = TrendByRule
      /\ (RecentAvg.totalCount = 0 \/ OlderAvg.totalCount = 0)
           => a.trendPercent = 0

\* states the trend rule is exercised in: exactly +10% with exact averages
\* (stable), above (degrading), below (improving)
TrendExactlyTenPercent ==
  /\ Positive(RecentAvg) /\ Positive(OlderAvg)
  /\ Representable(RecentAvg) /\ Representable(OlderAvg)
  /\ CompareTrend(RecentAvg, OlderAvg, 10) = 0
  /\ GetPerformanceAnalysis(metrics, trackerNow, 0).trend = "estavel"

\* the response times of the sample buffer, ascending
BufferSorted == SortAscending(
  [i \in 1..Len(metrics.current.samples) |->
     metrics.current.samples[i].responseTime])

\* the 0-based index ceil(p/100 * n) - 1 clamped to [0, n-1]
NearestRankIndex(p, n) ==
  LET rank == CHOOSE c \in 0..n : 100 * c >= p * n /\ 100 * (c - 1) < p * n
      index == rank - 1
  IN IF index < 0 THEN 0 ELSE IF index > n - 1 THEN n - 1 ELSE index

\* the percentiles getPerformanceAnalysis reports
Reported == GetPerformanceAnalysis(metrics, trackerNow, 0).percentiles

\* C15: the percentile p of a non-empty buffer is the element of the
\* ascending buffer at index ceil(p/100 * n) - 1 clamped to [0, n-1], taken
\* over the whole buffer; the samples 100, 200, 300, 400, 500 give average
\* 300, p50 300, p95 500, p99 500; an empty list gives 0.
C15_NearestRank ==
  LET n == Len(metrics.current.samples)
      reported == Reported
      sorted == BufferSorted
  IN /\ n = 0 => reported = [p50 |-> 0, p95 |-> 0, p99 |-> 0]
     /\ n > 0 =>
          /\ reported.p50 = sorted[NearestRankIndex(50, n) + 1]
          /\ reported.p95 = sorted[NearestRankIndex(95, n) + 1]
          /\ reported.p99 = sorted[NearestRankIndex(99, n) + 1]
     /\ (n = 5 /\ \A i \in 1..5 : recorded[i].responseTime = 100 * i) =>
          /\ GetCurrentStats(metrics).average = 300
          /\ reported = [p50 |-> 300, p95 |-> 500, p99 |-> 500]

\* C15 witness: a buffer of 20 samples whose 95th and 99th percentile are
\* different elements
C15_Witness ==
  /\ Len(metrics.current.samples) >= 20
  /\ Reported.p50 < Reported.p95
  /\ Reported.p95 < Reported.p99

\* C16: for a non-empty buffer p50 <= p95 <= p99, and each of them is the
\* response time of a sample in the buffer.
C16_PercentilesOrdered ==
  LET samples == metrics.current.samples
      times == {samples[i].responseTime : i \in 1..Len(samples)}
      reported == Reported
  IN Len(samples) > 0 =>
       /\ reported.p50 <= reported.p95
       /\ reported.p95 <= reported.p99
       /\ reported.p50 \in times
       /\ reported.p95 \in times
       /\ reported.p99 \in times

\* C16 witness: samples recorded slowest first, three distinct values
C16_Witness ==
  /\ Len(metrics.current.samples) = 3
  /\ metrics.current.samples[1].responseTime = 500
  /\ metrics.current.samples[2].responseTime = 300
  /\ metrics.current.samples[3].responseTime = 100
  /\ Reported = [p50 |-> 300, p95 |-> 500, p99 |-> 500]

\* C18: a check cycle whose probe call succeeds records the response time
\* of the check in the metrics aggregator, by one recordResponseTime call,
\* so that the aggregator's count follows the successful checks.
C18_SuccessRecordsSample ==
  [][(CycleStep /\ last'.outcome = "success")
       => /\ Len(recorded') = Len(recorded) + 1
          /\ metrics'.current.count = metrics.current.count + 1
  ]_vars

\* a step that is a check cycle whose probe call failed
FailedProbeStep == CycleStep /\ last'.outcome \in {"failed", "aborted"}

\* what the failure path of a cycle leaves: the failure counted, its
\* summary appended with the kind classifyError gives, lastError set, the
\* alert sent exactly when handleError said so, the stats saved
FailureRecorded ==
  /\ last'.outcome = "failed"
  /\ last'.type \in ErrorTypes
  /\ stats'.failedChecks = stats.failedChecks + 1
  /\ Len(stats'.errors) > 0
  /\ stats'.errors[Len(stats'.errors)] = last'.type
  /\ stats'.lastError = last'.type
  /\ last'.alerts = (IF last'.shouldNotify THEN 1 ELSE 0)
  /\ statsFile' = FileWith(stats')

\* C19: for every failure of the probe call (timeout, network error, HTTP
\* error status, validation failure) runHealthCheck completes without
\* raising, and the failure is recorded: failedChecks incremented, the
\* summary with the classified kind appended, lastError set, the
\* notification decision applied, the stats persisted.
C19_FailuresRecorded ==
  [][FailedProbeStep => FailureRecorded]_vars

\* the same for the failures whose thrown object carries a message
FailuresWithMessageRecorded ==
  [][(FailedProbeStep /\ last'.error.message # "absent") => FailureRecorded
  ]_vars

\* a check cycle that probes while the writes of the disk fail
ProbeOnFailingDisk == CycleStep /\ last'.probed /\ ~diskOk

\* the successful check is counted and the error state cleared in memory,
\* no file changes
SuccessKeptInMemory ==
  /\ last'.outcome = "success"
  /\ stats'.successfulChecks = stats.successfulChecks + 1
  /\ stats'.isHealthy
  /\ errorState' = EmptyErrorState
  /\ errorFile' = errorFile
  /\ statsFile' = statsFile

\* the failed check is handled to the end: handleError's result carries
\* the count of the kind since the last success and the decision the
\* cooldown gives, the entry and the stats are updated in memory, no file
\* changes
FailureKeptInMemory ==
  LET errorType == ClassifyError(last'.error) IN
  /\ last'.outcome = "failed"
  /\ last'.type = errorType
  /\ last'.errorCount = failsSinceClear[errorType] + 1
  /\ last'.shouldNotify
       = (\/ failsSinceClear[errorType] = 0
          \/ lastAlertAt[errorType] = Null
          \/ clock' - lastAlertAt[errorType] >= cooldown)
  /\ last'.alerts = (IF last'.shouldNotify THEN 1 ELSE 0)
  /\ errorType \in DOMAIN errorState'
  /\ errorState'[errorType].count = last'.errorCount
  /\ errorState'[errorType].lastOccurrence = clock'
  /\ last'.shouldNotify
       => errorState'[errorType].lastNotification = clock'
  /\ stats'.failedChecks = stats.failedChecks + 1
  /\ stats'.lastError = errorType
  /\ ~stats'.isHealthy
  /\ errorFile' = errorFile
  /\ statsFile' = statsFile

\* a recordResponseTime call while the writes of the disk fail
RecordOnFailingDisk == Len(recorded') = Len(recorded) + 1 /\ ~diskOk

\* the sample is in the aggregate and in the buffer, the file is as it was
SampleKeptInMemory ==
  /\ metrics'.current.count = metrics.current.count + 1
  /\ metrics'.current.totalTime
       = metrics.current.totalTime + recorded'[Len(recorded')].responseTime
  /\ Len(metrics'.current.samples) > 0
  /\ metrics'.current.samples[Len(metrics'.current.samples)]
       = recorded'[Len(recorded')]
  /\ metricsFile' = metricsFile

\* C20: a failed write of error-state.json, monitor-stats.json or
\* performance-metrics.json is swallowed: the check cycle runs to
\* completion, the in-memory state carries the update, and handleError
\* returns the shouldNotify and errorCount it returns on a healthy disk.
C20_WriteFailuresSwallowed ==
  [][/\ (ProbeOnFailingDisk /\ last'.error = NoError) => SuccessKeptInMemory
     /\ (ProbeOnFailingDisk /\ last'.error # NoError
           /\ ClassifyError(last'.error) \in ErrorTypes)
          => FailureKeptInMemory
     /\ RecordOnFailingDisk => SampleKeptInMemory
  ]_vars

\* C20 witness: the second failure in a row handled while no write has
\* ever reached the disk, counted 2 and not notified again
C20_Witness ==
  /\ ~diskOk
  /\ last.outcome = "failed"
  /\ last.errorCount = 2
  /\ ~last.shouldNotify
  /\ errorState[last.type].count = 2
  /\ ~errorFile.exists
  /\ ~statsFile.exists

\* a sample recorded in memory while performance-metrics.json could not
\* be written
SampleWithoutFile ==
  /\ ~diskOk
  /\ metrics.current.count = 1
  /\ ~metricsFile.exists

\* the file is missing, or its content is not JSON
MissingOrMalformed(file) == ~file.exists \/ file.corrupt

\* the stores as a start leaves them when the file it loads is missing or
\* does not parse: before the first check of the process, and before the
\* first sample of the tracker
DefaultsAfterFailedLoad ==
  /\ (phase = "first" /\ MissingOrMalformed(errorFile))
       => errorState = EmptyErrorState
  /\ (phase = "first" /\ MissingOrMalformed(statsFile))
       => /\ stats.totalChecks = 0 /\ stats.successfulChecks = 0
          /\ stats.failedChecks = 0 /\ stats.totalResponseTime = 0
          /\ stats.errors = <<>>
          /\ stats.isHealthy
  /\ (recorded = <<>> /\ MissingOrMalformed(metricsFile))
       => /\ metrics.current.count = 0
          /\ metrics.current.samples = <<>>
          /\ DOMAIN metrics.hourly = {}
          /\ DOMAIN metrics.daily = {}

\* the first operation on a store after such a start does what it does on a
\* fresh installation
FirstOperationAsFresh ==
  /\ (CycleStep /\ last'.first /\ last'.probed /\ MissingOrMalformed(statsFile))
       => /\ stats'.totalChecks = 1
          /\ last'.recoveries = 0
          /\ stats'.successfulChecks + stats'.failedChecks = 1
  /\ (CycleStep /\ last'.first /\ last'.outcome = "failed"
        /\ MissingOrMalformed(errorFile))
       => /\ last'.errorCount = 1
          /\ last'.shouldNotify
          /\ DOMAIN errorState' = {last'.type}
  /\ (Len(recorded) = 0 /\ Len(recorded') = 1 /\ MissingOrMalformed(metricsFile))
       => /\ metrics'.current.count = 1
          /\ metrics'.current.totalTime = recorded'[1].responseTime
          /\ metrics'.current.samples = recorded'
          /\ DOMAIN metrics'.hourly = {trackerNow}

\* C21: after a load of a missing or malformed file the store is in its
\* default empty state (no error entries; metrics with count 0, no samples
\* and no buckets; stats with all counters 0 and isHealthy true), and the
\* next handleError, recordResponseTime or runHealthCheck behaves as on a
\* fresh start.
C21_DefaultsOnUnreadableFile ==
  []DefaultsAfterFailedLoad /\ [][FirstOperationAsFresh]_vars

\* C21 witness: a process started over a garbled error-state.json and a
\* garbled monitor-stats.json that held a failure, with empty stores
C21_Witness ==
  /\ phase = "first"
  /\ errorFile.corrupt /\ DOMAIN errorFile.content # {}
  /\ statsFile.corrupt /\ statsFile.content.failedChecks > 0
  /\ errorState = EmptyErrorState
  /\ stats.totalChecks = 0

\* a tracker built over a garbled performance-metrics.json that held two
\* samples
TrackerOverGarbledFile ==
  /\ metricsFile.corrupt
  /\ metricsFile.content.current.count = 2
  /\ recorded = <<>>
  /\ metrics = EmptyMetrics

\* a check cycle that sends an alert while the Telegram API does not answer
AlertUndelivered ==
  CycleStep /\ last'.alerts = 1 /\ notificationsEnabled /\ ~telegramOk

\* a check cycle that sends a recovery notice while the Telegram API does
\* not answer
RecoveryUndelivered ==
  CycleStep /\ last'.recoveries = 1 /\ notificationsEnabled /\ ~telegramOk

\* C22: sendMessage never raises into the caller; when the Telegram
\* request fails it returns success = false, and the check cycle that sent
\* the alert or the recovery notice ends as it does when the message is
\* delivered: same outcome, same counters, state and stats saved.
C22_TelegramNeverRaises ==
  [][/\ AlertUndelivered
          => /\ last'.alertResult = "failed"
             /\ last'.outcome = "failed"
             /\ last'.type = ClassifyError(last'.error)
             /\ stats'.failedChecks = stats.failedChecks + 1
             /\ stats'.totalChecks = stats.totalChecks + 1
             /\ stats'.lastError = last'.type
             /\ ~stats'.isHealthy
             /\ errorFile' = FileWith(errorState')
             /\ statsFile' = FileWith(stats')
     /\ RecoveryUndelivered
          => /\ last'.recoveryResult = "failed"
             /\ last'.outcome = "success"
             /\ stats'.successfulChecks = stats.successfulChecks + 1
             /\ stats'.totalChecks = stats.totalChecks + 1
             /\ stats'.failedChecks = stats.failedChecks
             /\ stats'.isHealthy
             /\ errorState' = EmptyErrorState
             /\ errorFile' = FileWith(errorState')
             /\ statsFile' = FileWith(stats')
  ]_vars

\* C22 witness: a failed check whose alert was not delivered, recorded as
\* a failed check
C22_Witness ==
  /\ last.outcome = "failed"
  /\ last.alertResult = "failed"
  /\ stats.failedChecks = 1
  /\ statsFile = FileWith(stats)

\* a recovery whose notice was not delivered, recorded as a success
RecoveryNoticeLost ==
  /\ last.outcome = "success"
  /\ last.recoveryResult = "failed"
  /\ stats.isHealthy

\* a step in which the running process exits
ExitStep == exitCode = Null /\ exitCode' # Null

\* what the shutdown path does before the exit: the stats flushed, the
\* shutdown notice handed to the channel
GracefulShutdown ==
  /\ statsFile' = FileWith(stats)
  /\ stopNotice' \in {"sent", "failed"}

\* C23: an uncaught exception makes the process attempt a graceful
\* shutdown (stats flushed, shutdown notice sent through monitor.stop) and
\* exit with a non-zero code; a shutdown by SIGINT or SIGTERM exits with 0.
C23_ExitCodes ==
  [][/\ (ExitStep /\ exitBy' = "uncaught")
          => (GracefulShutdown /\ exitCode' # 0)
     /\ (ExitStep /\ exitBy' = "signal")
          => (GracefulShutdown /\ exitCode' = 0)
  ]_vars

\* what the code does: both the signal and the uncaught exception end in a
\* graceful shutdown with exit code 0
BothShutdownsExitZero ==
  [][(ExitStep /\ exitBy' \in {"signal", "uncaught"})
       => (GracefulShutdown /\ exitCode' = 0)
  ]_vars

\* the process has exited with 0 after an uncaught exception
ExitedZeroAfterUncaught ==
  exitBy = "uncaught" /\ exitCode = 0 /\ phase = "down"

\* the check of a process started with --test
TestCheck == CycleStep /\ testMode

\* with --test nothing recurring ever runs; without it a recurring check or
\* a status summary runs only after the immediate first check has completed
RecurringOnlyAfterFirstCheck ==
  /\ testMode => (phase' # "cron" /\ firings' = firings)
  /\ (~testMode /\ (firings' # firings \/ (CycleStep /\ phase # "first")))
       => (phase = "cron" /\ last.seq > 0)

\* C24: with --test the process initializes, runs exactly one check cycle
\* and exits with code 0 whatever the outcome of the check, and no
\* recurring task is scheduled; without flags the immediate first check has
\* completed before any recurring check or status summary runs.
C24_TestModeAndFirstCheck ==
  [][/\ TestCheck
          => /\ phase = "first"
             /\ phase' = "down"
             /\ exitCode' = 0
     /\ RecurringOnlyAfterFirstCheck
  ]_vars

\* what the code does with --test: the exit code is 0 unless the check
\* ended with a rejection, and then 1
TestModeExitsZeroUnlessAborted ==
  [][/\ TestCheck
          => /\ phase = "first"
             /\ phase' = "down"
             /\ exitCode' = (IF last'.outcome = "aborted" THEN 1 ELSE 0)
     /\ RecurringOnlyAfterFirstCheck
  ]_vars

\* a --test run that exited with 1 after its check
TestRunExitedOne ==
  testMode /\ phase = "down" /\ exitBy = "fatal" /\ exitCode = 1
    /\ last.outcome = "aborted"

\* a firing of the status-summary timer
StatusFiring == firings' = firings + 1

\* C30: in continuous mode every firing of the status-summary timer hands
\* the monitor's current status to sendStatusSummary, and no firing ends in
\* an error nobody handles.
C30_StatusSummarySent ==
  [][StatusFiring
       => /\ statusSent' = statusSent + 1
          /\ statusRejected' = statusRejected
  ]_vars

\* what the code does: no firing sends anything, every firing ends in a
\* rejection
StatusSummaryNeverSent ==
  statusSent = 0 /\ statusRejected = firings

\* the timer has fired twice and nothing was sent
FiredTwiceNothingSent ==
  firings = 2 /\ statusSent = 0 /\ statusRejected = 2 /\ phase = "cron"

\* the recorded samples whose hourly bucket is between `from` and `to`
\* hours old, both included
RecordedAged(from, to) ==
  {i \in 1..Len(recorded) :
     /\ trackerNow - recorded[i].time >= from
     /\ trackerNow - recorded[i].time <= to}

\* the sum of the response times of the recorded samples in the set
RECURSIVE TotalTimeOf(_)
TotalTimeOf(indices) ==
  IF indices = {}
  THEN 0
  ELSE LET i == CHOOSE x \in indices : TRUE
       IN recorded[i].responseTime + TotalTimeOf(indices \ {i})

\* total and count of the recorded samples aged from..to hours
WindowOf(from, to) ==
  [totalTime |-> TotalTimeOf(RecordedAged(from, to)),
   totalCount |-> Cardinality(RecordedAged(from, to))]

\* C25: the recent window of the trend is the buckets of the last 6 hours,
\* the older window is exactly the buckets from 6 up to 24 hours ago (the
\* bucket 24 hours old counted in), olderAvg is the sample-weighted mean
\* over those, and no sample older than 24 hours influences the trend.
C25_OlderWindowUpTo24Hours ==
  /\ RecentAvg = WindowOf(0, 5)
  /\ OlderAvg = WindowOf(6, 24)

\* what the code computes: the older window is the 24 buckets that start 6
\* hours ago, the buckets 6 to 29 hours old
OlderWindowIs6To29 ==
  /\ RecentAvg = WindowOf(0, 5)
  /\ OlderAvg = WindowOf(6, 29)

\* a sample 26 hours old is the only one in the older window, and decides
\* the trend against a recent sample
TrendFrom26HoursAgo ==
  /\ trackerNow = 26
  /\ RecordedAged(6, 24) = {}
  /\ RecordedAged(26, 26) # {}
  /\ RecordedAged(0, 5) # {}
  /\ GetPerformanceAnalysis(metrics, trackerNow, 0).trend # "estavel"

\* the average response time of the recorded samples in the set, rounded
\* to the millisecond as the statistics report it; 0 without samples
ReportedAverage(indices) ==
  IF indices = {}
  THEN 0
  ELSE MathRound(TotalTimeOf(indices), Cardinality(indices))

\* the hours of the last 24 with a recorded sample whose reported average
\* is above 1.5 times the reported overall average
HoursAboveOverall ==
  {h \in 0..trackerNow :
     /\ trackerNow - h <= 23
     /\ RecordedIn(h) # {}
     /\ 2 * ReportedAverage(RecordedIn(h))
          > 3 * ReportedAverage(1..Len(recorded))}

\* the hours of the set from the oldest to the latest
RECURSIVE Chronological(_)
Chronological(hours) ==
  IF hours = {}
  THEN <<>>
  ELSE LET first == CHOOSE h \in hours : \A other \in hours : h <= other
       IN <<first>> \o Chronological(hours \ {first})

\* the critical hours of the performance analysis
ReportedCritical ==
  GetPerformanceAnalysis(metrics, trackerNow, 0).criticalHours

\* C26: the critical hours reported are exactly the hours of the last 24
\* that have at least one sample and whose average exceeds 1.5 times the
\* current overall average, cut to the first 3 from the oldest on; an hour
\* without samples is never critical.
C26_CriticalHours ==
  LET expected == Chronological(HoursAboveOverall)
      shown == MathMin(3, Len(expected))
  IN /\ Len(ReportedCritical) = shown
     /\ \A i \in 1..shown :
          /\ ReportedCritical[i].hour = expected[i] % 24
          /\ ReportedCritical[i].average
               = ReportedAverage(RecordedIn(expected[i]))

\* four hours of the last 24 are critical, the latest of them is not shown,
\* and an hour of the last 24 with samples is not critical
C26_Witness ==
  /\ Cardinality(HoursAboveOverall) = 4
  /\ Len(ReportedCritical) = 3
  /\ \E h \in 0..trackerNow :
       /\ trackerNow - h <= 23
       /\ RecordedIn(h) # {}
       /\ h \notin HoursAboveOverall

\* at hour 26 the slow hours 1 and 2 are out of the last 24 hours and only
\* the slow hours 3 and 4 are reported
OnlyLast24HoursCritical ==
  /\ trackerNow = 26
  /\ RecordedIn(1) # {} /\ RecordedIn(2) # {}
  /\ HoursAboveOverall = {3, 4}
  /\ Len(ReportedCritical) = 2

\* a bucket that starts at hour `start` is older than 7 days at the hour
\* `now`, reached exactly (onTheHour) or passed
OlderThan7Days(start, now, onTheHour) ==
  \/ start + 7 * 24 < now
  \/ start + 7 * 24 = now /\ ~onTheHour

\* the step is a recordResponseTime call
RecordStep == Len(recorded') = Len(recorded) + 1

\* the buckets after the call are the buckets of before that are not older
\* than 7 days and the buckets of the current hour and day; all but the
\* current ones are as before
RetainedAfterRecord(onTheHour) ==
  LET now == trackerNow
      today == now \div 24
  IN /\ DOMAIN metrics'.hourly
          = {h \in DOMAIN metrics.hourly \cup {now} :
               ~OlderThan7Days(h, now, onTheHour)}
     /\ DOMAIN metrics'.daily
          = {d \in DOMAIN metrics.daily \cup {today} :
               ~OlderThan7Days(d * 24, now, onTheHour)}
     /\ now \in DOMAIN metrics'.hourly
     /\ today \in DOMAIN metrics'.daily
     /\ \A h \in DOMAIN metrics'.hourly \ {now} :
          metrics'.hourly[h] = metrics.hourly[h]
     /\ \A d \in DOMAIN metrics'.daily \ {today} :
          metrics'.daily[d] = metrics.daily[d]

\* C27: after every recordResponseTime call no hourly and no daily bucket
\* whose period began more than 7 days before the call remains, and every
\* other bucket that existed before the call is still present, unchanged
\* unless it is the bucket of the current hour or day.
C27_SevenDayRetention ==
  [][RecordStep => \E onTheHour \in BOOLEAN : RetainedAfterRecord(onTheHour)
    ]_vars

\* a call at hour 192 has purged the hour and the day of the sample
\* recorded at hour 0 and has kept the hour and the day of the sample
\* recorded at hour 24, which began 7 days before the call
C27_Witness ==
  /\ trackerNow = 192
  /\ RecordedIn(0) # {} /\ RecordedIn(24) # {} /\ RecordedIn(192) # {}
  /\ 0 \notin DOMAIN metrics.hourly
  /\ 0 \notin DOMAIN metrics.daily
  /\ 24 \in DOMAIN metrics.hourly
  /\ 1 \in DOMAIN metrics.daily
  /\ metrics.hourly[24].count = Cardinality(RecordedIn(24))

\* a call within hour 192 has purged the hour of the sample recorded at
\* hour 24 and the day of that sample, 7 days and less than an hour old
DayPurgedWithItsHour ==
  /\ trackerNow = 192
  /\ RecordedIn(24) # {} /\ RecordedIn(192) # {}
  /\ 24 \notin DOMAIN metrics.hourly
  /\ 1 \notin DOMAIN metrics.daily

\* the step is a check cycle that counted a failed check
FailureCounted == CycleStep /\ stats'.failedChecks = stats.failedChecks + 1

\* the list of error summaries after the cycle: the summary of a failed
\* check is appended and the oldest summaries beyond 100 are dropped; any
\* other cycle leaves the list alone
ErrorsFollowFailedChecks ==
  LET pushed == Append(stats.errors, last'.type)
      excess == Len(pushed) - 100
  IN IF FailureCounted
     THEN stats'.errors = IF excess > 0
                          THEN SubSeq(pushed, excess + 1, Len(pushed))
                          ELSE pushed
     ELSE stats'.errors = stats.errors

\* monitor-stats.json holds the stats when a cycle that was not skipped ends
StatsWritten ==
  last'.outcome # "skipped" => statsFile' = FileWith(stats')

\* C28: stats.errors holds at most 100 error summaries, the summaries of
\* the most recent failed checks in their order, the oldest evicted first;
\* the stats are written to monitor-stats.json at the end of every check
\* cycle that was not skipped, successful or failed.
C28_ErrorsCappedStatsSaved ==
  /\ [](Len(stats.errors) <= 100)
  /\ [][CycleStep => ErrorsFollowFailedChecks /\ StatsWritten]_vars

\* what the code does: the cap holds, and the list and the file follow
\* every cycle whose error handling returned
CappedAndSavedUnlessAborted ==
  /\ [](Len(stats.errors) <= 100)
  /\ [][CycleStep /\ last'.outcome # "aborted"
          => ErrorsFollowFailedChecks /\ StatsWritten]_vars

\* the list was full, a failed check evicted its oldest summary, and the
\* next check failed on a response without pixCode: it is counted, has no
\* summary and the file still holds the stats of the cycle before
FailedCheckWithoutSummary ==
  /\ last.outcome = "aborted"
  /\ stats.failedChecks = 102
  /\ Len(stats.errors) = 100
  /\ stats.errors[1] = "API_ERROR"
  /\ statsFile.content.failedChecks = 101

\* C29: at most one check cycle is in flight at any time: a cycle started
\* by the timer or as the first check runs to completion, its notification
\* and persistence steps included, before the next timer-fired cycle
\* starts.
C29_OneCycleInFlight == Len(running) <= 1

\* C29 amended: the first check is over before the timer is set up, and
\* while every cycle takes less than the interval between two firings at
\* most one cycle is in flight; nothing keeps the timer from starting a
\* cycle while an earlier one is still in flight.
C29_OneInFlightWhileCyclesAreShort ==
  /\ phase = "first" => Len(running) <= 1
  /\ cycleLimit < interval => Len(running) <= 1

\* every cycle takes less than the interval, and the third cycle, fired by
\* the timer, is alone in flight a tick after it started, waiting for its
\* write of the stats
C29_Witness ==
  /\ cycleLimit < interval
  /\ phase = "cron"
  /\ Len(running) = 1
  /\ running[1].id = 3
  /\ running[1].age = 1
  /\ running[1].pc = "statsSave"

\* the timer fired while the cycle it started an interval earlier was
\* still waiting for its request: two cycles are in flight
TwoCyclesInFlight ==
  /\ Len(running) = 2
  /\ running[1].pc = "probe"
  /\ running[1].age = interval
  /\ running[2].age = 0

\* the step is a check cycle whose probe succeeded
SucceededStep == CycleStep /\ last'.outcome = "success"

\* a successful check that starts healthy sends no notification
SilentWhenHealthy ==
  SucceededStep /\ stats.isHealthy
    => last'.recoveries = 0 /\ last'.alerts = 0

\* a failed check that starts unhealthy alerts only when handleError said so
AlertOnlyWhenDue ==
  CycleStep /\ last'.outcome = "failed" /\ ~stats.isHealthy
    => (last'.alerts > 0 => last'.shouldNotify)

\* C31: a successful check that starts healthy sends no notification; the
\* error state is cleared and error-state.json rewritten by a successful
\* check that follows a failure and not by one that follows a success; a
\* failed check that starts unhealthy alerts only when handleError returned
\* shouldNotify = TRUE.
C31_SilentAndClearedAfterFailure ==
  [][/\ SilentWhenHealthy
     /\ AlertOnlyWhenDue
     /\ SucceededStep /\ ~stats.isHealthy
          => errorState' = << >> /\ errorFile' = FileWith(<< >>)
     /\ SucceededStep /\ stats.isHealthy
          => errorState' = errorState /\ errorFile' = errorFile]_vars

\* C31 amended: a successful check that starts healthy sends no
\* notification; every successful check, after a failure or after a
\* success, clears the error state and rewrites error-state.json once; a
\* failed check that starts unhealthy alerts only when handleError returned
\* shouldNotify = TRUE.
C31_SilentAndClearedOnEverySuccess ==
  [][/\ SilentWhenHealthy
     /\ AlertOnlyWhenDue
     /\ SucceededStep
          => errorState' = << >> /\ errorFile' = FileWith(<< >>)]_vars

\* the first check of a fresh installation succeeded: nothing was sent and
\* error-state.json, absent before, now holds the empty state
C31_Witness ==
  /\ last.outcome = "success"
  /\ last.seq = 1
  /\ last.recoveries = 0
  /\ stats.failedChecks = 0
  /\ errorFile = FileWith(<< >>)

\* a check succeeded after a failure: one recovery notice, the state cleared
ClearedAfterFailure ==
  /\ last.outcome = "success"
  /\ last.recoveries = 1
  /\ errorState = << >>
  /\ stats.failedChecks > 0

\* the entry counts at least one failure, between a first and a last
\* occurrence, and was notified, if at all, between the two
WellFormedEntry(entry) ==
  /\ entry.count >= 1
  /\ entry.firstOccurrence <= entry.lastOccurrence
  /\ \/ entry.lastNotification = Null
     \/ /\ entry.firstOccurrence <= entry.lastNotification
        /\ entry.lastNotification <= entry.lastOccurrence

\* C32: every entry of the error state has count >= 1, firstOccurrence <=
\* lastOccurrence and lastNotification unset or between the two; an entry
\* for a kind exists only if a failure of that kind was handled since the
\* last successful check or clear.
C32_ErrorStateEntries ==
  \A k \in DOMAIN errorState :
    /\ WellFormedEntry(errorState[k])
    /\ k \in ErrorTypes
    /\ failsSinceClear[k] >= 1

\* an entry that counts two failures, notified at the first and not at the
\* second, next to no entry for a kind that has not failed since the clear
C32_Witness ==
  \E k \in DOMAIN errorState :
    /\ errorState[k].count = 2
    /\ errorState[k].lastNotification # Null
    /\ errorState[k].lastNotification < errorState[k].lastOccurrence
    /\ \E other \in ErrorTypes \ DOMAIN errorState :
         failsSinceClear[other] = 0

\* the check cycle of the step counts as one check, successful or failed
CountedOnce ==
  /\ stats'.totalChecks = stats.totalChecks + 1
  /\ \/ /\ stats'.successfulChecks = stats.successfulChecks + 1
        /\ stats'.failedChecks = stats.failedChecks
     \/ /\ stats'.successfulChecks = stats.successfulChecks
        /\ stats'.failedChecks = stats.failedChecks + 1

\* C33: totalChecks = successfulChecks + failedChecks in every reachable
\* state, and every check cycle that is not skipped adds exactly 1 to
\* totalChecks and to exactly one of successfulChecks and failedChecks,
\* whatever happens in the steps that follow the probe.
C33_ChecksCountedOnce ==
  /\ [](stats.totalChecks = stats.successfulChecks + stats.failedChecks)
  /\ [][CycleStep /\ last'.outcome # "skipped" => CountedOnce]_vars

\* the second check succeeded after a failure, its recovery notice was
\* not delivered, and the two checks are counted once each
C33_Witness ==
  /\ last.outcome = "success"
  /\ last.recoveryResult = "failed"
  /\ stats.totalChecks = 2
  /\ stats.successfulChecks = 1
  /\ stats.failedChecks = 1

\* a check whose error handling raised is counted once, as failed
AbortedCountedOnce ==
  /\ last.outcome = "aborted"
  /\ last.seq = 1
  /\ stats.totalChecks = 1
  /\ stats.failedChecks = 1

\* C34: whenever no check cycle is in flight, stats.isHealthy is false
\* exactly when the error state holds at least one entry.
C34_HealthFlagAgreesWithErrorState ==
  running = <<>> => (~stats.isHealthy <=> errorState # << >>)

\* what the code keeps: while the error state holds an entry the monitor
\* is unhealthy
UnhealthyWhileEntries ==
  running = <<>> /\ errorState # << >> => ~stats.isHealthy

\* a recurring check failed on a response without pixCode: the monitor is
\* unhealthy, keeps running, and the error state holds no entry
UnhealthyWithoutEntry ==
  /\ phase = "cron"
  /\ last.outcome = "aborted"
  /\ ~stats.isHealthy
  /\ errorState = << >>

\* the cycle running[i] waits for handleError's write of error-state.json
\* and the entry of its kind has been cleared since
ClearedWhileSaving(i) ==
  /\ running[i].pc = "handleSave"
  /\ running[i].type \notin DOMAIN errorState

\* the step resumes running[i] after its pending write
Resumes(i) ==
  \A j \in 1..Len(running') :
    running'[j].id = running[i].id => running'[j].pc # running[i].pc

\* after the step the cycle running[i] has its result from handleError,
\* with an errorCount of at least 1, has appended its error summary and
\* goes on to the alert or to the write of the stats
BookkeepingDone(i) ==
  /\ \E j \in 1..Len(running') :
       /\ running'[j].id = running[i].id
       /\ running'[j].pc \in {"alert", "statsSave"}
       /\ running'[j].errorCount >= 1
  /\ stats'.errors = Append(stats.errors, running[i].type)

\* C35: when a successful cycle clears the error state while a failed
\* cycle's handleError is suspended at its write, handleError still returns
\* a result with errorCount >= 1 and the failed cycle finishes its
\* bookkeeping (summary appended, stats saved) without raising.
C35_HandleErrorSurvivesClear ==
  [][\A i \in 1..Len(running) :
       ClearedWhileSaving(i) /\ Resumes(i) => BookkeepingDone(i)]_vars

\* what the code does when the entry is still there at the end of the
\* write: handleError returns and the bookkeeping is done
BookkeepingWhenNotCleared ==
  [][\A i \in 1..Len(running) :
       /\ running[i].pc = "handleSave"
       /\ running[i].type \in DOMAIN errorState
       /\ Resumes(i)
       => BookkeepingDone(i)]_vars

\* a failed cycle waits for handleError's write, the cycle fired after it
\* has succeeded and cleared the error state, and the monitor is healthy
FailedCycleOvertaken ==
  /\ Len(running) = 2
  /\ ClearedWhileSaving(1)
  /\ running[2].pc \in {"clearSave", "statsSave"}
  /\ stats.isHealthy

\* C36: recovery notices are never duplicated: between any two of them a
\* failed check has been processed, also when successful cycles overlap
\* after a failure.
C36_RecoveryNotDuplicated ==
  /\ \A n \in 1..Len(recoveryNotices) : recoveryNotices[n] >= 1
  /\ \A n \in 1..(Len(recoveryNotices) - 1) :
       recoveryNotices[n] < recoveryNotices[n + 1]

\* after one failed check two successful cycles are in flight together:
\* the one whose request returned first sends the recovery notice, the
\* other found the monitor healthy and sends none
C36_Witness ==
  /\ stats.failedChecks = 1
  /\ stats.successfulChecks = 2
  /\ Len(running) = 2
  /\ \E i, j \in 1..2 :
       /\ running[i].pc = "recovery"
       /\ running[j].pc \in {"clearSave", "statsSave"}
  /\ Len(recoveryNotices) = 1

\* the lastNotification of a kind in an error state, Null without entry
LastNotificationOf(state, k) ==
  IF k \in DOMAIN state THEN state[k].lastNotification ELSE Null

\* the step is a handled failure that sets its kind's lastNotification
StampedStep ==
  /\ HandledStep
  /\ LastNotificationOf(errorState', last'.type) # Null
  /\ LastNotificationOf(errorState', last'.type)
       # LastNotificationOf(errorState, last'.type)

\* C37: whenever a kind's lastNotification is set, an alert for that kind
\* was delivered at that time; an alert that failed or was skipped does
\* not start the cooldown.
C37_StampedOnlyWhenDelivered ==
  [][StampedStep => last'.alertResult = "sent"]_vars

\* what the code does: lastNotification is set exactly when handleError
\* decides to notify, before anything is sent
StampedWhenDue ==
  [][HandledStep => (StampedStep <=> last'.shouldNotify)]_vars

\* the Telegram API did not answer the alert of the first failure, and the
\* kind's lastNotification is set to the time of that failure
LostAlertStamped ==
  /\ last.outcome = "failed"
  /\ last.seq = 1
  /\ last.alertResult = "failed"
  /\ LastNotificationOf(errorState, last.type) = clock

\* with notifications disabled the alert of the first failure was skipped,
\* its kind's cooldown has started all the same, and the second failure of
\* the kind, within the cooldown, attempts nothing
SilencedAfterSkippedAlert ==
  /\ last.outcome = "failed"
  /\ last.errorCount = 2
  /\ ~last.shouldNotify
  /\ ~notificationsEnabled
  /\ stats.successfulChecks = 0
  /\ cycles = 2
====
